---- MODULE Spec2Model ----
(***************************************************************************)
(* Face-recognition visit log: the snapshot pipeline                       *)
(* (app/modules/camera/snapshot_handler.py), the recognition engine        *)
(* (app/modules/recognition/service.py, embeddings.py) and the attendance  *)
(* gate (app/modules/attendance/service.py, app/db/session.py), and the    *)
(* camera event listener (app/modules/camera/event_listener.py).           *)
(*                                                                         *)
(* Units.  Distances and confidences are fixed-point hundredths            *)
(* (0.40 is 40, 1.0 is 100).  Time is in seconds.  Embeddings are          *)
(* one-dimensional vectors <<x>>, for which the Euclidean norm of a        *)
(* difference is its absolute value.                                       *)
(***************************************************************************)
EXTENDS Integers, Sequences, FiniteSets, TLC

VARIABLES
    now,     \* the wall clock read by datetime.now()
    log,     \* table attendance_log: sequence of rows, id = position
    sem,     \* _processing_semaphore: number of free slots
    pc,      \* per snapshot: position of its process_snapshot task
    image,   \* per snapshot: what the file at file_path contains
    file,    \* per snapshot: where the file is ("inbox" is the original path)
    result,  \* per snapshot: RecognitionResponse of recognize_face
    canLog,  \* per snapshot: outcome of can_log_entry in _record_attendance
    fault,   \* per snapshot: the persistence call that failed, if any
    call,    \* the last direct AttendanceService call and its result
    recog,   \* the last direct recognize_face call: inputs and response
    listener,\* _event_listener_loop: position, reconnect_delay, buffer and
             \* the globals _should_stop and _on_snapshot_callback
    camera,  \* the bytes the camera has still to send on the open connection
    hist,    \* what the listener did: delays slept, messages handled,
             \* captures requested, snapshots handed to the callback
    req,     \* per request of another guarded caller (POST /log,
             \* on_face_recognized, POST /snapshot): the request, the
             \* position of its handler, the cooldown outcome, the answer
    storage, \* the files under static/debug_photos, the host's clock and
             \* UTC offset, the last cleanup_expired_files call
    employees, \* tables employees and embeddings, joined: one row per
             \* employee, in id order
    is_loaded  \* the recognition provider has loaded its models

vars == <<now, log, sem, pc, image, file, result, canLog, fault, call, recog,
          listener, camera, hist, req, storage,
                   employees, is_loaded>>

(***************************************************************************)
(* Program constants                                                       *)
(***************************************************************************)
COOLDOWN_SECONDS == 300

THRESHOLD_MATCH == 60

THRESHOLD_LOW_CONFIDENCE == 40

DISTANCE_THRESHOLD == 60

SEMAPHORE_SLOTS == 5

EXIT_CONFIDENCE == 100
\* reconnect_delay = 5 and min(reconnect_delay * 2, 60)
BASE_DELAY == 5
MAX_DELAY == 60

(***************************************************************************)
(* Bounds of the model                                                     *)
(***************************************************************************)
MaxSnapshots == 2

PoolSnapshots == 6

PoolMatching == 2

MaxTime == 600

MaxEvents == 3

MaxCoord == 170
\* messages the camera sends on one connection
MaxMessages == 2
\* consecutive failures of the listener without a successful connection
MaxRun == 6
\* files under debug_photos
MaxFiles == 2
\* hours on the storage host's clock
MaxClock == 30
\* requests of the other guarded callers in flight together
MaxRequests == 2

TickSteps == {150, 300}

\* float('inf') of find_best_match: larger than any distance of the model
INF == 1000000

None == 0

Abs(x) == IF x < 0 THEN 0 - x ELSE x

Max(a, b) == IF a >= b THEN a ELSE b

(***************************************************************************)
(* The employees table joined with embeddings, in query order:             *)
(* EmployeeEmbedding(person_id, embedding).                                *)
(***************************************************************************)
EmployeeEmbedding(id, x) == [person_id |-> id, embedding |-> <<x>>]

employees_with_embeddings == <<EmployeeEmbedding(1, 0), EmployeeEmbedding(2, 100)>>

Employees == {employees_with_embeddings[i].person_id :
                 i \in 1..Len(employees_with_embeddings)}

(***************************************************************************)
(* employees/crud.py                                                       *)
(***************************************************************************)
\* a row of employees with the vector of its row of embeddings; enrolled
\* is FALSE for an employee without a row of embeddings, whom the join of
\* get_employees_with_embeddings leaves out
Employee(id, is_active, enrolled, vector) ==
    [id |-> id, is_active |-> is_active, enrolled |-> enrolled, vector |-> vector]

\* the two employees of the model, active and enrolled
AllEmployees == <<Employee(1, TRUE, TRUE, <<0>>), Employee(2, TRUE, TRUE, <<100>>)>>

\* the query without its filter on is_active
get_employees_with_embeddings_all(table, only_active) ==
    SelectSeq(table, LAMBDA emp : emp.enrolled)

\* select(Employee, Embedding).join(...), filtered on is_active
get_employees_with_embeddings(table, only_active) ==
    SelectSeq(table, LAMBDA emp : emp.enrolled /\ (only_active => emp.is_active))

\* snapshot_handler.py lines 100-108: the rows whose vector is not empty,
\* as EmployeeEmbedding
EmbeddingsDb(rows) ==
    LET converted == [i \in 1..Len(rows) |->
                        [person_id |-> rows[i].id, embedding |-> rows[i].vector]]
    IN  SelectSeq(converted, LAMBDA emb : emb.embedding # <<>>)

\* every employee active, the provider loaded
InitEmployees ==
    /\ employees = AllEmployees
    /\ is_loaded = TRUE

(***************************************************************************)
(* Snapshot files                                                          *)
(***************************************************************************)
EmptyFile == [kind |-> "empty", embedding |-> <<>>]

GarbageFile == [kind |-> "garbage", embedding |-> <<>>]

NoFaceImage == [kind |-> "no_face", embedding |-> <<>>]

FaceImage(x) == [kind |-> "face", embedding |-> <<x>>]

\* a decodable image on which the provider raises (detect_faces or
\* extract_embedding: ModelNotLoadedError, NoFaceDetectedError, ...)
ProviderErrorImage == [kind |-> "provider_error", embedding |-> <<>>]

\* faces at 25 and 75 match employees 1 and 2, 50 is a low-confidence
\* candidate, 170 is nobody
SnapshotImages == {EmptyFile, GarbageFile, NoFaceImage, ProviderErrorImage,
                   FaceImage(25), FaceImage(75), FaceImage(50), FaceImage(170)}

(***************************************************************************)
(* recognition/embeddings.py                                               *)
(***************************************************************************)
euclidean_distance(embedding1, embedding2) == Abs(embedding1[1] - embedding2[1])

\* <= in place of <: among equal distances the last entry wins
RECURSIVE best_match_loop_last(_, _, _, _, _)
best_match_loop_last(target, db, i, best_id, best_distance) ==
    IF i > Len(db) THEN [person_id |-> best_id, distance |-> best_distance]
    ELSE LET distance == euclidean_distance(target, db[i].embedding)
         IN  IF distance <= best_distance
             THEN best_match_loop_last(target, db, i + 1, db[i].person_id, distance)
             ELSE best_match_loop_last(target, db, i + 1, best_id, best_distance)

RECURSIVE best_match_loop(_, _, _, _, _)
best_match_loop(target, db, i, best_id, best_distance) ==
    IF i > Len(db) THEN [person_id |-> best_id, distance |-> best_distance]
    ELSE LET distance == euclidean_distance(target, db[i].embedding)
         IN  IF distance < best_distance
             THEN best_match_loop(target, db, i + 1, db[i].person_id, distance)
             ELSE best_match_loop(target, db, i + 1, best_id, best_distance)

\* best_distance starting at 0 and no test for an empty index
find_best_match_zero_init(target, db, threshold) ==
    LET best == best_match_loop(target, db, 1, None, 0)
        confidence == Max(0, 100 - best.distance)
    IN  IF best.distance <= threshold
        THEN [person_id |-> best.person_id, confidence |-> confidence]
        ELSE [person_id |-> None, confidence |-> confidence]

\* 1 - distance without the max(0.0, ...)
find_best_match_unclamped(target, db, threshold) ==
    IF Len(db) = 0 THEN [person_id |-> None, confidence |-> 0]
    ELSE LET best == best_match_loop(target, db, 1, None, INF)
             confidence == 100 - best.distance
         IN  IF best.distance <= threshold
             THEN [person_id |-> best.person_id, confidence |-> confidence]
             ELSE [person_id |-> None, confidence |-> confidence]

\* a distance equal to the threshold is already too far
find_best_match_strict_cutoff(target, db, threshold) ==
    IF Len(db) = 0 THEN [person_id |-> None, confidence |-> 0]
    ELSE LET best == best_match_loop(target, db, 1, None, INF)
             confidence == Max(0, 100 - best.distance)
         IN  IF best.distance < threshold
             THEN [person_id |-> best.person_id, confidence |-> confidence]
             ELSE [person_id |-> None, confidence |-> confidence]

find_best_match(target, db, threshold) ==
    IF Len(db) = 0 THEN [person_id |-> None, confidence |-> 0]
    ELSE LET best == best_match_loop(target, db, 1, None, INF)
             confidence == Max(0, 100 - best.distance)
         IN  IF best.distance <= threshold
             THEN [person_id |-> best.person_id, confidence |-> confidence]
             ELSE [person_id |-> None, confidence |-> confidence]

(***************************************************************************)
(* recognition/service.py                                                  *)
(***************************************************************************)
determine_status_strict(similarity) ==
    IF similarity > THRESHOLD_MATCH THEN "match"
    ELSE IF similarity > THRESHOLD_LOW_CONFIDENCE THEN "low_confidence"
    ELSE "unknown"

determine_status(similarity) ==
    IF similarity >= THRESHOLD_MATCH THEN "match"
    ELSE IF similarity >= THRESHOLD_LOW_CONFIDENCE THEN "low_confidence"
    ELSE "unknown"

RecognitionResponse(st, id, conf) ==
    [status |-> st, person_id |-> id, confidence |-> conf, error_message |-> ""]

\* the response built by the except branch, lines 149-155
ErrorResponse(e) ==
    [status |-> "error", person_id |-> None, confidence |-> 0, error_message |-> e]

\* no response at all: the exception leaves recognize_face
Escaped(e) ==
    [status |-> "raised", person_id |-> None, confidence |-> 0, error_message |-> e]

NoResponse == RecognitionResponse("none", None, 0)

\* numpy subtracts two vectors only when their shapes agree; vectors of
\* different models (128 and 512 values) make euclidean_distance raise
same_shape(target, db) ==
    \A i \in 1..Len(db) : Len(db[i].embedding) = Len(target)

\* _decode_image called before the try block
recognize_face_decode_outside_try(img, embeddings_db) ==
    IF img.kind \in {"empty", "garbage"}
    THEN Escaped("InvalidImageError")
    ELSE IF img.kind = "provider_error"
    THEN ErrorResponse("provider error")
    ELSE IF img.kind = "no_face"
    THEN RecognitionResponse("no_face", None, 0)
    ELSE IF ~same_shape(img.embedding, embeddings_db)
    THEN ErrorResponse("ValueError")
    ELSE LET m  == find_best_match(img.embedding, embeddings_db, DISTANCE_THRESHOLD)
             st == determine_status(m.confidence)
         IN  RecognitionResponse(st,
                                 IF st # "unknown" THEN m.person_id ELSE None,
                                 m.confidence)

\* every step runs inside the try of line 117: a decode error, an
\* exception of the provider and an exception of the matching step all
\* end in the except branch
recognize_face(img, embeddings_db) ==
    IF img.kind \in {"empty", "garbage"}
    THEN ErrorResponse("InvalidImageError")
    ELSE IF img.kind = "provider_error"
    THEN ErrorResponse("provider error")
    ELSE IF img.kind = "no_face"
    THEN RecognitionResponse("no_face", None, 0)
    ELSE IF ~same_shape(img.embedding, embeddings_db)
    THEN ErrorResponse("ValueError")
    ELSE LET m  == find_best_match(img.embedding, embeddings_db, DISTANCE_THRESHOLD)
             st == determine_status(m.confidence)
         IN  RecognitionResponse(st,
                                 IF st # "unknown" THEN m.person_id ELSE None,
                                 m.confidence)

(***************************************************************************)
(* attendance/service.py                                                   *)
(***************************************************************************)
AttendanceLog(e, type, conf, trace, ts) ==
    [employee_id |-> e, event_type |-> type, confidence |-> conf,
     trace_id |-> trace, timestamp |-> ts]

EventsOf(e, lg) == {i \in 1..Len(lg) : lg[i].employee_id = e}

\* the rows "ORDER BY timestamp DESC LIMIT 1" can return for an employee:
\* SQL leaves the choice among rows with equal timestamps open
LastLogs(e, lg) ==
    {i \in EventsOf(e, lg) :
        \A j \in EventsOf(e, lg) : lg[j].timestamp <= lg[i].timestamp}

\* a row added only when no row of the employee is younger than the
\* cooldown
create_log_cooling(lg, e, type, conf, trace, t) ==
    IF \E i \in EventsOf(e, lg) : t - lg[i].timestamp < COOLDOWN_SECONDS
    THEN lg
    ELSE Append(lg, AttendanceLog(e, type, conf, trace, t))

create_log_as_exit(lg, e, type, conf, trace, t) ==
    Append(lg, AttendanceLog(e, "exit", conf, trace, t))

\* the employee's newest row overwritten where there is one
create_log_replacing(lg, e, type, conf, trace, t) ==
    IF LastLogs(e, lg) = {}
    THEN Append(lg, AttendanceLog(e, type, conf, trace, t))
    ELSE [lg EXCEPT ![CHOOSE i \in LastLogs(e, lg) : TRUE] =
                        AttendanceLog(e, type, conf, trace, t)]

\* session.add / flush / commit of one row built by _create_log
create_log(lg, e, type, conf, trace, t) ==
    Append(lg, AttendanceLog(e, type, conf, trace, t))

\* the result is "true" or "false", or "raised" when the query fails:
\* get_session rolls back and re-raises, can_log_entry has no handler
can_log_entry_fail_open(e, cooldown_seconds, lg, t, db_error) ==
    IF db_error THEN "true"
    ELSE IF LastLogs(e, lg) = {} THEN "true"
    ELSE LET last_log == lg[CHOOSE i \in LastLogs(e, lg) : TRUE]
         IN  IF t - last_log.timestamp >= cooldown_seconds THEN "true" ELSE "false"

can_log_entry_strict(e, cooldown_seconds, lg, t, db_error) ==
    IF db_error THEN "raised"
    ELSE IF LastLogs(e, lg) = {} THEN "true"
    ELSE LET last_log == lg[CHOOSE i \in LastLogs(e, lg) : TRUE]
         IN  IF t - last_log.timestamp > cooldown_seconds THEN "true" ELSE "false"

\* the cooldown counted from the employee's last entry only
can_log_entry_entries_only(e, cooldown_seconds, lg, t, db_error) ==
    LET entries == {i \in EventsOf(e, lg) : lg[i].event_type = "entry"}
        last    == {i \in entries :
                      \A j \in entries : lg[j].timestamp <= lg[i].timestamp}
    IN  IF db_error THEN "raised"
        ELSE IF last = {} THEN "true"
        ELSE LET last_log == lg[CHOOSE i \in last : TRUE]
             IN  IF t - last_log.timestamp >= cooldown_seconds
                 THEN "true" ELSE "false"

can_log_entry(e, cooldown_seconds, lg, t, db_error) ==
    IF db_error THEN "raised"
    ELSE IF LastLogs(e, lg) = {} THEN "true"
    ELSE LET last_log == lg[CHOOSE i \in LastLogs(e, lg) : TRUE]
         IN  IF t - last_log.timestamp >= cooldown_seconds THEN "true" ELSE "false"

status_of_swapped(last_log) ==
    IF last_log.event_type = "entry" THEN "left" ELSE "in_office"

\* get_employee_status, lines 204-210: the status for the row it fetched
status_of(last_log) ==
    IF last_log.event_type = "entry" THEN "in_office" ELSE "left"

\* get_present_employees: the rows joined on (employee_id, max timestamp)
\* whose event_type is entry; one response item per row
get_present_employees(lg) ==
    {i \in 1..Len(lg) :
        /\ i \in LastLogs(lg[i].employee_id, lg)
        /\ lg[i].event_type = "entry"}

\* get_office_status().present_count = len(present)
present_count(lg) == Cardinality(get_present_employees(lg))

(***************************************************************************)
(* camera/snapshot_handler.py                                              *)
(***************************************************************************)
delete_snapshot_noop(f) == f

delete_snapshot(f) == "deleted"

move_to_recognized_noop(f) == f

move_to_recognized(f) == "recognized"

Snapshots == DOMAIN pc

InFlight == {s \in Snapshots : pc[s] \in {"admitted", "gate", "logging"}}

\* RecognitionService.is_ready with a provider: provider.is_loaded()
is_ready(loaded) == loaded

semaphore_locked_never(value) == FALSE

\* asyncio.Semaphore.locked(): acquire waits while no slot is free
semaphore_locked(value) == value = 0

\* process_snapshot up to the first suspension inside
\* a snapshot that finds every slot taken is given up
Acquire_dropping(s) ==
    /\ pc[s] = "queued"
    /\ IF semaphore_locked(sem)
       THEN /\ pc' = [pc EXCEPT ![s] = "dropped"]
            /\ UNCHANGED <<sem, file>>
       ELSE IF file[s] = "absent"
       THEN /\ pc' = [pc EXCEPT ![s] = "done"]
            /\ UNCHANGED <<sem, file>>
       ELSE IF image[s].kind = "empty"
       THEN /\ file' = [file EXCEPT ![s] = delete_snapshot(@)]
            /\ pc' = [pc EXCEPT ![s] = "done"]
            /\ sem' = sem
       ELSE IF ~is_ready(is_loaded)
       THEN /\ pc' = [pc EXCEPT ![s] = "done"]
            /\ UNCHANGED <<sem, file>>
       ELSE /\ pc' = [pc EXCEPT ![s] = "admitted"]
            /\ sem' = sem - 1
            /\ file' = file
    /\ UNCHANGED <<now, log, image, result, canLog, fault, call, recog,
                   listener, camera, hist, req, storage,
                   employees, is_loaded>>

\* the slot of a snapshot that ends before its first await is kept
Acquire_keeping_slot(s) ==
    /\ pc[s] = "queued"
    /\ ~semaphore_locked(sem)
    /\ IF file[s] = "absent"
       THEN /\ pc' = [pc EXCEPT ![s] = "done"]
            /\ sem' = sem - 1
            /\ file' = file
       ELSE IF image[s].kind = "empty"
       THEN /\ file' = [file EXCEPT ![s] = delete_snapshot(@)]
            /\ pc' = [pc EXCEPT ![s] = "done"]
            /\ sem' = sem - 1
       ELSE IF ~is_ready(is_loaded)
       THEN /\ pc' = [pc EXCEPT ![s] = "done"]
            /\ sem' = sem - 1
            /\ file' = file
       ELSE /\ pc' = [pc EXCEPT ![s] = "admitted"]
            /\ sem' = sem - 1
            /\ file' = file
    /\ UNCHANGED <<now, log, image, result, canLog, fault, call, recog,
                   listener, camera, hist, req, storage,
                   employees, is_loaded>>

\* is_ready() is not asked: the snapshot goes on to recognition
Acquire_unready(s) ==
    /\ pc[s] = "queued"
    /\ ~semaphore_locked(sem)
    /\ IF file[s] = "absent"
       THEN /\ pc' = [pc EXCEPT ![s] = "done"]
            /\ UNCHANGED <<sem, file>>
       ELSE IF image[s].kind = "empty"
       THEN /\ file' = [file EXCEPT ![s] = delete_snapshot(@)]
            /\ pc' = [pc EXCEPT ![s] = "done"]
            /\ sem' = sem
       ELSE /\ pc' = [pc EXCEPT ![s] = "admitted"]
            /\ sem' = sem - 1
            /\ file' = file
    /\ UNCHANGED <<now, log, image, result, canLog, fault, call, recog,
                   listener, camera, hist, req, storage,
                   employees, is_loaded>>

\* process_snapshot and _process_snapshot_internal up to the first await
\* that suspends (line 93): acquire a slot and open the file.  A file that
\* is not there (FileNotFoundError, line 138), an empty file (deleted,
\* line 81) and a service that is not ready (line 89) end the task and
\* release the slot at once
Acquire(s) ==
    /\ pc[s] = "queued"
    /\ ~semaphore_locked(sem)
    /\ IF file[s] = "absent"
       THEN /\ pc' = [pc EXCEPT ![s] = "done"]
            /\ UNCHANGED <<sem, file>>
       ELSE IF image[s].kind = "empty"
       THEN /\ file' = [file EXCEPT ![s] = delete_snapshot(@)]
            /\ pc' = [pc EXCEPT ![s] = "done"]
            /\ sem' = sem
       ELSE IF ~is_ready(is_loaded)
       THEN /\ pc' = [pc EXCEPT ![s] = "done"]
            /\ UNCHANGED <<sem, file>>
       ELSE /\ pc' = [pc EXCEPT ![s] = "admitted"]
            /\ sem' = sem - 1
            /\ file' = file
    /\ UNCHANGED <<now, log, image, result, canLog, fault, call, recog,
                   listener, camera, hist, req, storage,
                   employees, is_loaded>>

\* an else in place of the elif of line 131: whatever is not a match is
\* deleted
Recognize_deleting_rest(s) ==
    /\ pc[s] = "admitted"
    /\ \E rows \in {get_employees_with_embeddings(employees, TRUE)} :
       \E db \in {EmbeddingsDb(rows)} :
           IF rows = <<>> \/ db = <<>>
           THEN /\ pc' = [pc EXCEPT ![s] = "done"]
                /\ sem' = sem + 1
                /\ UNCHANGED <<result, file>>
           ELSE
           LET r == recognize_face(image[s], db)
           IN
           /\ result' = [result EXCEPT ![s] = r]
           /\ IF r.status = "match" /\ r.person_id # None
              THEN /\ pc' = [pc EXCEPT ![s] = "gate"]
                   /\ UNCHANGED <<sem, file>>
              ELSE /\ pc' = [pc EXCEPT ![s] = "done"]
                   /\ sem' = sem + 1
                   /\ file' = [file EXCEPT ![s] = delete_snapshot(@)]
    /\ UNCHANGED <<now, log, image, canLog, fault, call, recog,
                   listener, camera, hist, req, storage,
                   employees, is_loaded>>

\* lines 91-135: load the index of the active employees; without a row, or
\* without a vector that is not empty, the task ends there.  Otherwise
\* recognize_face, then route on the status: a match goes on to
\* _record_attendance, every other status ends the task
Recognize(s) ==
    /\ pc[s] = "admitted"
    /\ \E rows \in {get_employees_with_embeddings(employees, TRUE)} :
       \E db \in {EmbeddingsDb(rows)} :
           IF rows = <<>> \/ db = <<>>
           THEN /\ pc' = [pc EXCEPT ![s] = "done"]
                /\ sem' = sem + 1
                /\ UNCHANGED <<result, file>>
           ELSE
           LET r == recognize_face(image[s], db)
           IN
           /\ result' = [result EXCEPT ![s] = r]
           /\ IF r.status = "match" /\ r.person_id # None
              THEN /\ pc' = [pc EXCEPT ![s] = "gate"]
                   /\ UNCHANGED <<sem, file>>
              ELSE /\ pc' = [pc EXCEPT ![s] = "done"]
                   /\ sem' = sem + 1
                   /\ file' = [file EXCEPT ![s] =
                                 IF r.status = "no_face"
                                 THEN delete_snapshot(@) ELSE @]
    /\ UNCHANGED <<now, log, image, canLog, fault, call, recog,
                   listener, camera, hist, req, storage,
                   employees, is_loaded>>

\* _record_attendance, lines 177-184: the cooldown check.  "false" returns
\* to _process_snapshot_internal, which moves the file; an exception of
\* can_log_entry reaches the handler of line 140, which only logs it
CheckCooldown(s) ==
    /\ pc[s] = "gate"
    /\ \E db_error \in BOOLEAN :
         LET can_log == can_log_entry(result[s].person_id, COOLDOWN_SECONDS,
                                      log, now, db_error)
         IN  /\ canLog' = [canLog EXCEPT ![s] = can_log]
             /\ fault' = [fault EXCEPT ![s] = IF db_error THEN "check" ELSE @]
             /\ IF can_log = "true"
                THEN /\ pc' = [pc EXCEPT ![s] = "logging"]
                     /\ UNCHANGED <<sem, file>>
                ELSE /\ pc' = [pc EXCEPT ![s] = "done"]
                     /\ sem' = sem + 1
                     /\ file' = [file EXCEPT ![s] =
                                   IF can_log = "false"
                                   THEN move_to_recognized(@) ELSE @]
    /\ UNCHANGED <<now, log, image, result, call, recog,
                   listener, camera, hist, req, storage,
                   employees, is_loaded>>

\* log_entry's exception escaping _record_attendance: the file stays put
RecordEntry_propagating(s) ==
    /\ pc[s] = "logging"
    /\ \E db_error \in BOOLEAN :
         /\ log' = IF db_error THEN log
                   ELSE create_log(log, result[s].person_id, "entry",
                                   result[s].confidence, s, now)
         /\ fault' = [fault EXCEPT ![s] = IF db_error THEN "append" ELSE @]
         /\ file' = [file EXCEPT ![s] =
                       IF db_error THEN @ ELSE move_to_recognized(@)]
    /\ pc' = [pc EXCEPT ![s] = "done"]
    /\ sem' = sem + 1
    /\ UNCHANGED <<now, image, result, canLog, call, recog,
                   listener, camera, hist, req, storage,
                   employees, is_loaded>>

\* _record_attendance, lines 186-197, then line 129: log_entry appends the
\* row; its exception is caught and logged in _record_attendance, and in
\* both cases the file is moved to recognized/ and the slot released
RecordEntry(s) ==
    /\ pc[s] = "logging"
    /\ \E db_error \in BOOLEAN :
         /\ log' = IF db_error THEN log
                   ELSE create_log(log, result[s].person_id, "entry",
                                   result[s].confidence, s, now)
         /\ fault' = [fault EXCEPT ![s] = IF db_error THEN "append" ELSE @]
    /\ file' = [file EXCEPT ![s] = move_to_recognized(@)]
    /\ pc' = [pc EXCEPT ![s] = "done"]
    /\ sem' = sem + 1
    /\ UNCHANGED <<now, image, result, canLog, call, recog,
                   listener, camera, hist, req, storage,
                   employees, is_loaded>>

\* time passes
Tick ==
    /\ \E d \in TickSteps : now + d <= MaxTime /\ now' = now + d
    /\ UNCHANGED <<log, sem, pc, image, file, result, canLog, fault, call, recog,
                   listener, camera, hist, req, storage,
                   employees, is_loaded>>

Call(op, e, t, db_error, res, n) ==
    [op |-> op, employee_id |-> e, at |-> t, db_error |-> db_error,
     result |-> res, count |-> n]

NoCall == Call("none", None, 0, FALSE, "none", 0)

\* app/core/config.py: the thresholds of Settings, read from the
\* environment; the defaults, in hundredths
recognition_match_threshold == 55
recognition_low_confidence_threshold == 40

Settings(match, low) ==
    [recognition_match_threshold |-> match,
     recognition_low_confidence_threshold |-> low]

DefaultSettings ==
    Settings(recognition_match_threshold, recognition_low_confidence_threshold)

NoRecog ==
    [image |-> NoFaceImage, index |-> <<>>, response |-> NoResponse,
     settings |-> DefaultSettings]

\* no cleanup_expired_files call yet
NoCleanup ==
    [op |-> "none", dry_run |-> FALSE, cutoff_date |-> 0, before |-> <<>>,
     files_deleted |-> 0, bytes_freed |-> 0]

\* an empty debug_photos directory on a host running on UTC
NoStorage == [utc_offset |-> 0, clock |-> 0, files |-> <<>>, last |-> NoCleanup]

\* the module globals before start_camera_listener: no task, no callback
Listener(at, delay, buf, stop, callback) ==
    [pc |-> at, reconnect_delay |-> delay, buffer |-> buf,
     listener_task |-> IF at = "idle" THEN "None" ELSE "task",
     camera_enabled |-> TRUE,
     should_stop |-> stop, on_snapshot_callback |-> callback]

NoListener == Listener("idle", BASE_DELAY, <<>>, FALSE, "None")

\* run: the delays slept since the last successful connection (or since
\* the start), each with what it followed; prior: the number of delays
\* slept before the connection now established; received: what the
\* connection has delivered so far.  The record of a connection is kept
\* until the sleep that follows its loss has ended.  last: the last call
\* of start_camera_listener or stop_camera_listener, until the loop moves
\* on to another connection attempt.
NoHist ==
    [last |-> "none", run |-> <<>>, prior |-> 0, keepalive |-> FALSE,
     received |-> <<>>, handled |-> <<>>, captures |-> <<>>,
     outcomes |-> <<>>, forwarded |-> <<>>]

InitCamera ==
    /\ listener = NoListener
    /\ camera = <<>>
    /\ hist = NoHist

InitPipeline(n) ==
    /\ now = 0
    /\ log = <<>>
    /\ sem = SEMAPHORE_SLOTS
    /\ pc = [s \in 1..n |-> "queued"]
    /\ file = [s \in 1..n |-> "inbox"]
    /\ result = [s \in 1..n |-> NoResponse]
    /\ canLog = [s \in 1..n |-> "none"]
    /\ fault = [s \in 1..n |-> "none"]
    /\ req = <<>>
    /\ storage = NoStorage
    /\ InitEmployees

Init ==
    /\ InitPipeline(MaxSnapshots)
    /\ image \in [1..MaxSnapshots -> SnapshotImages]
    /\ call = NoCall
    /\ recog = NoRecog
    /\ InitCamera

Next ==
    \/ \E s \in Snapshots : Acquire(s)
    \/ \E s \in Snapshots : Recognize(s)
    \/ \E s \in Snapshots : CheckCooldown(s)
    \/ \E s \in Snapshots : RecordEntry(s)
    \/ Tick

Spec == Init /\ [][Next]_vars

(***************************************************************************)
(* Snapshots against a changing table of employees                         *)
(***************************************************************************)
\* EmployeeCRUD.delete of an employee that exists: the soft delete
delete(employee_id) ==
    /\ \E i \in DOMAIN employees : employees[i].id = employee_id
    /\ employees' = [i \in DOMAIN employees |->
                       IF employees[i].id = employee_id
                       THEN [employees[i] EXCEPT !.is_active = FALSE]
                       ELSE employees[i]]
    /\ UNCHANGED <<now, log, sem, pc, image, file, result, canLog, fault, call,
                   recog, listener, camera, hist, req, storage, is_loaded>>

\* tables whose join has no row, or no row with a vector, beside the full
\* table and one with an empty vector for employee 1
Rosters ==
    {AllEmployees,
     <<Employee(1, TRUE, TRUE, <<>>), Employee(2, TRUE, TRUE, <<100>>)>>,
     <<Employee(1, TRUE, FALSE, <<>>), Employee(2, TRUE, TRUE, <<>>)>>,
     <<Employee(1, TRUE, FALSE, <<>>), Employee(2, TRUE, FALSE, <<>>)>>}

\* what a snapshot path may hold: no file, an empty file, a face near
\* employee 1, a face near employee 2
RosterFiles ==
    <<[file |-> "absent", image |-> EmptyFile],
      [file |-> "inbox", image |-> EmptyFile],
      [file |-> "inbox", image |-> FaceImage(25)],
      [file |-> "inbox", image |-> FaceImage(75)]>>

\* the provider loaded at startup or not (main.py goes on when
\* init_recognition_service fails); the snapshots are listed by kind
InitRoster ==
    /\ now = 0
    /\ log = <<>>
    /\ sem = SEMAPHORE_SLOTS
    /\ pc = [s \in 1..MaxSnapshots |-> "queued"]
    /\ \E kind \in [1..MaxSnapshots -> DOMAIN RosterFiles] :
         /\ \A s, t \in 1..MaxSnapshots : s < t => kind[s] <= kind[t]
         /\ file = [s \in 1..MaxSnapshots |-> RosterFiles[kind[s]].file]
         /\ image = [s \in 1..MaxSnapshots |-> RosterFiles[kind[s]].image]
    /\ result = [s \in 1..MaxSnapshots |-> NoResponse]
    /\ canLog = [s \in 1..MaxSnapshots |-> "none"]
    /\ fault = [s \in 1..MaxSnapshots |-> "none"]
    /\ req = <<>>
    /\ storage = NoStorage
    /\ call = NoCall
    /\ recog = NoRecog
    /\ InitCamera
    /\ employees \in Rosters
    /\ is_loaded \in BOOLEAN

NextRoster ==
    \/ \E s \in Snapshots : Acquire(s)
    \/ \E s \in Snapshots : Recognize(s)
    \/ \E s \in Snapshots : CheckCooldown(s)
    \/ \E s \in Snapshots : RecordEntry(s)
    \/ \E employee_id \in Employees : delete(employee_id)

SpecRoster == InitRoster /\ [][NextRoster]_vars

(***************************************************************************)
(* A burst of snapshots of one person, more than there are slots           *)
(***************************************************************************)
\* the first PoolMatching snapshots of the burst show employee 1, the
\* others show a stranger
InitPool ==
    /\ InitPipeline(PoolSnapshots)
    /\ image = [s \in 1..PoolSnapshots |->
                  IF s <= PoolMatching THEN FaceImage(25) ELSE FaceImage(170)]
    /\ call = NoCall
    /\ recog = NoRecog
    /\ InitCamera

SpecPool == InitPool /\ [][Next]_vars

\* the event loop runs every task that is ready: a task whose await has
\* completed, and a waiter of the semaphore once a slot is free, resumes
process_snapshot(s) ==
    Acquire(s) \/ Recognize(s) \/ CheckCooldown(s) \/ RecordEntry(s)

\* one snapshot more than there are slots, submitted together: the first
\* shows employee 1, the others a stranger
InitBurst ==
    /\ InitPipeline(SEMAPHORE_SLOTS + 1)
    /\ image = [s \in 1..(SEMAPHORE_SLOTS + 1) |->
                  IF s = 1 THEN FaceImage(25) ELSE FaceImage(170)]
    /\ call = NoCall
    /\ recog = NoRecog
    /\ InitCamera

LivePool ==
    /\ InitBurst
    /\ [][Next]_vars
    /\ \A s \in 1..(SEMAPHORE_SLOTS + 1) : WF_vars(process_snapshot(s))

(***************************************************************************)
(* Direct calls of AttendanceService (the API routes, the tests)           *)
(***************************************************************************)
Confidences == {75}

\* log_entry: _create_log with EventType.ENTRY; a persistence error
\* surfaces to the caller and nothing is appended
LogEntry(e) ==
    /\ Len(log) < MaxEvents
    /\ \E db_error \in BOOLEAN, confidence \in Confidences :
         /\ log' = IF db_error THEN log
                   ELSE create_log(log, e, "entry", confidence, None, now)
         /\ call' = Call("log_entry", e, now, db_error,
                         IF db_error THEN "raised" ELSE "ok", 0)
    /\ UNCHANGED <<now, sem, pc, image, file, result, canLog, fault, recog,
                   listener, camera, hist, req, storage,
                   employees, is_loaded>>

\* log_exit: _create_log with EventType.EXIT and confidence 1.0
LogExit(e) ==
    /\ Len(log) < MaxEvents
    /\ \E db_error \in BOOLEAN :
         /\ log' = IF db_error THEN log
                   ELSE create_log(log, e, "exit", EXIT_CONFIDENCE, None, now)
         /\ call' = Call("log_exit", e, now, db_error,
                         IF db_error THEN "raised" ELSE "ok", 0)
    /\ UNCHANGED <<now, sem, pc, image, file, result, canLog, fault, recog,
                   listener, camera, hist, req, storage,
                   employees, is_loaded>>

CanLogEntry(e) ==
    /\ \E db_error \in BOOLEAN :
         call' = Call("can_log_entry", e, now, db_error,
                      can_log_entry(e, COOLDOWN_SECONDS, log, now, db_error), 0)
    /\ UNCHANGED <<now, log, sem, pc, image, file, result, canLog, fault, recog,
                   listener, camera, hist, req, storage,
                   employees, is_loaded>>

\* get_employee_status: UNKNOWN without a row, else the status of the row
\* _get_last_log returned
GetEmployeeStatus(e) ==
    /\ IF LastLogs(e, log) = {}
       THEN call' = Call("get_employee_status", e, now, FALSE, "unknown", 0)
       ELSE \E i \in LastLogs(e, log) :
              call' = Call("get_employee_status", e, now, FALSE,
                           status_of(log[i]), 0)
    /\ UNCHANGED <<now, log, sem, pc, image, file, result, canLog, fault, recog,
                   listener, camera, hist, req, storage,
                   employees, is_loaded>>

GetOfficeStatus ==
    /\ call' = Call("get_office_status", None, now, FALSE, "ok",
                    present_count(log))
    /\ UNCHANGED <<now, log, sem, pc, image, file, result, canLog, fault, recog,
                   listener, camera, hist, req, storage,
                   employees, is_loaded>>

\* get_attendance_history: the rows between the start of start_date and
\* the end of end_date, of one employee or of all; a SELECT only
get_attendance_history(lg, start_datetime, end_datetime, e) ==
    {i \in 1..Len(lg) :
        /\ lg[i].timestamp >= start_datetime
        /\ lg[i].timestamp <= end_datetime
        /\ e # None => lg[i].employee_id = e}

GetAttendanceHistory ==
    /\ \E e \in Employees \cup {None}, end_datetime \in {0, MaxTime} :
         call' = Call("get_attendance_history", e, now, FALSE, "ok",
                      Cardinality(get_attendance_history(log, 0, end_datetime, e)))
    /\ UNCHANGED <<now, log, sem, pc, image, file, result, canLog, fault, recog,
                   listener, camera, hist, req, storage,
                   employees, is_loaded>>

InitService ==
    /\ InitPipeline(0)
    /\ image = <<>>
    /\ call = NoCall
    /\ recog = NoRecog
    /\ InitCamera

NextService ==
    \/ \E e \in Employees : LogEntry(e)
    \/ \E e \in Employees : LogExit(e)
    \/ \E e \in Employees : CanLogEntry(e)
    \/ \E e \in Employees : GetEmployeeStatus(e)
    \/ GetOfficeStatus
    \/ GetAttendanceHistory
    \/ Tick

SpecService == InitService /\ [][NextService]_vars

\* the service called directly while one snapshot of employee 1 goes
\* through the pipeline
InitJournal ==
    /\ InitPipeline(1)
    /\ image = <<FaceImage(25)>>
    /\ call = NoCall
    /\ recog = NoRecog
    /\ InitCamera

NextJournal ==
    \/ LogEntry(1)
    \/ LogExit(1)
    \/ CanLogEntry(1)
    \/ GetEmployeeStatus(1)
    \/ GetOfficeStatus
    \/ GetAttendanceHistory
    \/ Next

SpecJournal == InitJournal /\ [][NextJournal]_vars

(***************************************************************************)
(* Direct calls of RecognitionService.recognize_face                       *)
(***************************************************************************)
ProbeImages == {GarbageFile, NoFaceImage, ProviderErrorImage}
                   \cup {FaceImage(x) : x \in 0..MaxCoord}

Indexes == {<<>>,
            employees_with_embeddings,
            <<EmployeeEmbedding(1, 0)>>,
            <<EmployeeEmbedding(2, 100), EmployeeEmbedding(1, 0)>>,
            <<EmployeeEmbedding(1, 40), EmployeeEmbedding(2, 40)>>,
            <<EmployeeEmbedding(1, 0), [person_id |-> 2, embedding |-> <<100, 0>>]>>}

\* the defaults, and an environment that sets both thresholds to the
\* values of the service's own constants or higher
ConfiguredSettings ==
    {Settings(match, low) :
        match \in {recognition_match_threshold, THRESHOLD_MATCH, THRESHOLD_MATCH + 10},
        low \in {recognition_low_confidence_threshold, THRESHOLD_LOW_CONFIDENCE + 10}}

\* recognize_face takes the image and the index; it reads no setting
RecognizeFace ==
    /\ recog.response = NoResponse
    /\ recog' = [recog EXCEPT !.response = recognize_face(recog.image, recog.index)]
    /\ UNCHANGED <<now, log, sem, pc, image, file, result, canLog, fault, call,
                   listener, camera, hist, req, storage,
                   employees, is_loaded>>

InitClassify ==
    /\ InitPipeline(0)
    /\ image = <<>>
    /\ call = NoCall
    /\ recog \in {[image |-> img, index |-> idx, response |-> NoResponse,
                     settings |-> st] :
                    img \in ProbeImages, idx \in Indexes, st \in ConfiguredSettings}
    /\ InitCamera

NextClassify == RecognizeFace

SpecClassify == InitClassify /\ [][NextClassify]_vars

(***************************************************************************)
(* The camera event listener (app/modules/camera/event_listener.py)        *)
(*                                                                         *)
(* The byte stream of a connection is a sequence of tokens: the body of a  *)
(* message, then its closing tag </XML_TOPSEE> in two pieces, so that a    *)
(* read can end inside the tag.  report: the body holds the text           *)
(* ALARM_REPORT_MESSAGE; flag: the digits of its first Alarm_flag          *)
(* attribute, "none" without one.                                          *)
(***************************************************************************)
Token(id, kind, report, flag) ==
    [id |-> id, kind |-> kind, report |-> report, flag |-> flag]

Body(id, report, flag) == Token(id, "body", report, flag)
TagHead(id) == Token(id, "tag_head", FALSE, "none")
TagTail(id) == Token(id, "tag_tail", FALSE, "none")

Bodies(id) == {Body(id, TRUE, "1"), Body(id, TRUE, "0"),
               Body(id, TRUE, "none"), Body(id, FALSE, "1")}

\* the message bodies of one connection, numbered in the order sent
Messages ==
    UNION {{bs \in [1..n -> UNION {Bodies(i) : i \in 1..n}] :
               \A i \in 1..n : bs[i].id = i} : n \in 0..MaxMessages}

Wire(bs) ==
    [p \in 1..(3 * Len(bs)) |->
        LET m == ((p - 1) \div 3) + 1
        IN  IF (p - 1) % 3 = 0 THEN bs[m]
            ELSE IF (p - 1) % 3 = 1 THEN TagHead(m) ELSE TagTail(m)]

\* the positions at which b'</XML_TOPSEE>' starts in the buffer
TagPositions(buffer) ==
    {i \in 1..(Len(buffer) - 1) :
        buffer[i].kind = "tag_head" /\ buffer[i + 1].kind = "tag_tail"}

\* buffer.find(b'</XML_TOPSEE>'), 0 standing for -1
find(buffer) ==
    IF TagPositions(buffer) = {} THEN 0
    ELSE CHOOSE i \in TagPositions(buffer) : \A j \in TagPositions(buffer) : i <= j

\* the complete message cut at the last tag of the buffer
extract_newest(buffer) ==
    LET last  == CHOOSE i \in TagPositions(buffer) :
                     \A j \in TagPositions(buffer) : j <= i
        start == IF TagPositions(buffer) = {last} THEN 1
                 ELSE 2 + CHOOSE i \in TagPositions(buffer) \ {last} :
                              \A j \in TagPositions(buffer) \ {last} : j <= i
    IN  [message |-> SubSeq(buffer, start, last + 1),
         buffer  |-> SubSeq(buffer, 1, start - 1)
                       \o SubSeq(buffer, last + 2, Len(buffer))]

\* lines 169-171: the message up to and including the first tag, and the
\* rest of the buffer
extract(buffer) ==
    LET end_idx == find(buffer) + 1
    IN  [message |-> SubSeq(buffer, 1, end_idx),
         buffer  |-> SubSeq(buffer, end_idx + 1, Len(buffer))]

NoEvent == [type |-> "None", flag |-> "none"]

\* decode ignoring what cannot be decoded; None without
\* ALARM_REPORT_MESSAGE; the flag is the first Alarm_flag="digits"
parse_alarm_event(data) ==
    LET bodies == SelectSeq(data, LAMBDA t : t.kind = "body")
        flags  == SelectSeq(bodies, LAMBDA t : t.flag # "none")
    IN  IF \A i \in 1..Len(bodies) : ~bodies[i].report
        THEN NoEvent
        ELSE [type |-> "alarm",
              flag |-> IF Len(flags) = 0 THEN "none" ELSE flags[1].flag]

\* line 176: if event and event.get('flag') == '1'
is_alarm(event) == event # NoEvent /\ event.flag = "1"

\* lines 168-180: messages are cut off the buffer and parsed until none
\* is complete or one asks for a snapshot; the loop goes on after the
\* capture.  handled collects the messages cut off.
RECURSIVE handle_messages(_, _)
handle_messages(buffer, handled) ==
    IF find(buffer) = 0
    THEN [buffer |-> buffer, handled |-> handled, capture |-> FALSE]
    ELSE LET x == extract(buffer)
             h == Append(handled, x.message)
         IN  IF is_alarm(parse_alarm_event(x.message))
             THEN [buffer |-> x.buffer, handled |-> h, capture |-> TRUE]
             ELSE handle_messages(x.buffer, h)

\* what ffmpeg does with one capture: a file of more than 1000 bytes; a
\* missing or smaller file; create_subprocess_exec raising; no exit
\* within 10 s; no exit within 10 s and the exit reaped while wait_for
\* unwinds, so that process.kill() of line 76 finds no process
CaptureOutcomes == {"ok", "small", "exec_error", "timeout", "timeout_exited"}

\* the value of _capture_rtsp_snapshot, or the exception leaving it:
\* ProcessLookupError is raised inside the except clause of line 74 and
\* no clause of the same try catches it
capture_rtsp_snapshot(ffmpeg) ==
    IF ffmpeg = "ok" THEN "snapshot_path"
    ELSE IF ffmpeg = "timeout_exited" THEN "ProcessLookupError"
    ELSE "None"

Slept(delay, cause) == [delay |-> delay, after |-> cause]

PipelineIdle ==
    UNCHANGED <<now, log, sem, pc, image, file, result, canLog, fault, call,
                recog, req, storage,
                   employees, is_loaded>>

\* open_connection succeeds without resetting reconnect_delay
Connect_keeping_delay ==
    /\ listener.pc = "connecting"
    /\ \E bs \in Messages : camera' = Wire(bs)
    /\ listener' = [listener EXCEPT !.pc = "reading", !.buffer = <<>>]
    /\ hist' = [NoHist EXCEPT !.prior = Len(hist.run)]
    /\ PipelineIdle

\* lines 143-151: open_connection succeeds
Connect ==
    /\ listener.pc = "connecting"
    /\ \E bs \in Messages : camera' = Wire(bs)
    /\ listener' = [listener EXCEPT !.pc = "reading",
                                    !.reconnect_delay = BASE_DELAY,
                                    !.buffer = <<>>]
    /\ hist' = [NoHist EXCEPT !.prior = Len(hist.run)]
    /\ PipelineIdle

\* lines 143, 192-206: open_connection raises (refused, unreachable,
\* timed out); the loop goes to sleep for reconnect_delay
ConnectFailed ==
    /\ listener.pc = "connecting"
    /\ Len(hist.run) < MaxRun
    /\ listener' = [listener EXCEPT !.pc = "sleeping"]
    /\ hist' = [hist EXCEPT
                  !.run = Append(@, Slept(listener.reconnect_delay, "attempt"))]
    /\ UNCHANGED camera
    /\ PipelineIdle

\* each read framed on its own: what the last read left over is dropped
Read_unbuffered ==
    /\ listener.pc = "reading"
    /\ \E n \in 1..Len(camera) :
         LET data == SubSeq(camera, 1, n)
             r    == handle_messages(data, hist.handled)
         IN  /\ camera' = SubSeq(camera, n + 1, Len(camera))
             /\ listener' = [listener EXCEPT
                               !.pc = IF r.capture THEN "capturing" ELSE "reading",
                               !.buffer = r.buffer]
             /\ hist' = [hist EXCEPT
                           !.received = @ \o data,
                           !.handled = r.handled,
                           !.captures = IF r.capture
                                        THEN Append(@, r.handled[Len(r.handled)])
                                        ELSE @]
    /\ PipelineIdle

\* the capture not awaited: the loop reads on while it runs
Read_while_capturing ==
    /\ listener.pc \in {"reading", "capturing"}
    /\ \E n \in 1..Len(camera) :
         LET data == SubSeq(camera, 1, n)
             r    == handle_messages(listener.buffer \o data, hist.handled)
         IN  /\ camera' = SubSeq(camera, n + 1, Len(camera))
             /\ listener' = [listener EXCEPT
                               !.pc = IF r.capture \/ listener.pc = "capturing"
                                      THEN "capturing" ELSE "reading",
                               !.buffer = r.buffer]
             /\ hist' = [hist EXCEPT
                           !.received = @ \o data,
                           !.handled = r.handled,
                           !.captures = IF r.capture
                                        THEN Append(@, r.handled[Len(r.handled)])
                                        ELSE @]
    /\ PipelineIdle

\* lines 156-186: read returns some bytes
Read ==
    /\ listener.pc = "reading"
    /\ \E n \in 1..Len(camera) :
         LET data == SubSeq(camera, 1, n)
             r    == handle_messages(listener.buffer \o data, hist.handled)
         IN  /\ camera' = SubSeq(camera, n + 1, Len(camera))
             /\ listener' = [listener EXCEPT
                               !.pc = IF r.capture THEN "capturing" ELSE "reading",
                               !.buffer = r.buffer]
             /\ hist' = [hist EXCEPT
                           !.received = @ \o data,
                           !.handled = r.handled,
                           !.captures = IF r.capture
                                        THEN Append(@, r.handled[Len(r.handled)])
                                        ELSE @]
    /\ PipelineIdle

\* the timeout handled as a lost connection: buffer dropped, backoff sleep
ReadTimeout_as_failure ==
    /\ listener.pc = "reading"
    /\ ~hist.keepalive
    /\ Len(hist.run) < MaxRun
    /\ listener' = [listener EXCEPT !.pc = "sleeping", !.buffer = <<>>]
    /\ hist' = [hist EXCEPT
                  !.keepalive = TRUE,
                  !.run = Append(@, Slept(listener.reconnect_delay, "loss"))]
    /\ camera' = <<>>
    /\ PipelineIdle

\* lines 188-190: nothing arrives for 60 s; the loop reads again
ReadTimeout ==
    /\ listener.pc = "reading"
    /\ ~hist.keepalive
    /\ hist' = [hist EXCEPT !.keepalive = TRUE]
    /\ UNCHANGED <<listener, camera>>
    /\ PipelineIdle

\* lines 161-163 and 196-206: read returns no bytes (the camera closed
\* the stream) or raises; the loop goes to sleep for reconnect_delay
ConnectionLost ==
    /\ listener.pc = "reading"
    /\ Len(hist.run) < MaxRun
    /\ listener' = [listener EXCEPT !.pc = "sleeping"]
    /\ hist' = [hist EXCEPT
                  !.run = Append(@, Slept(listener.reconnect_delay, "loss"))]
    /\ camera' = <<>>
    /\ PipelineIdle

\* lines 180-186, then 168-180 again: the capture ends; a path is handed
\* to the callback in a task of its own; an exception leaves the inner
\* loops and ends the connection
capture_result(ffmpeg) ==
    LET snapshot_path == capture_rtsp_snapshot(ffmpeg)
        message == hist.captures[Len(hist.captures)]
        r == handle_messages(listener.buffer, hist.handled)
    IN  IF snapshot_path = "ProcessLookupError"
        THEN [raised |-> TRUE,
              listener |-> [listener EXCEPT !.pc = "sleeping"],
              hist |-> [hist EXCEPT
                          !.outcomes = Append(@, ffmpeg),
                          !.run = Append(@, Slept(listener.reconnect_delay, "loss"))],
              camera |-> <<>>]
        ELSE [raised |-> FALSE,
              listener |-> [listener EXCEPT
                              !.pc = IF r.capture THEN "capturing" ELSE "reading",
                              !.buffer = r.buffer],
              hist |-> [hist EXCEPT
                          !.outcomes = Append(@, ffmpeg),
                          !.forwarded =
                              IF snapshot_path # "None"
                                 /\ listener.on_snapshot_callback # "None"
                              THEN Append(@, message) ELSE @,
                          !.handled = r.handled,
                          !.captures = IF r.capture
                                       THEN Append(@, r.handled[Len(r.handled)])
                                       ELSE @],
              camera |-> camera]

capture_and_continue ==
    /\ listener.pc = "capturing"
    /\ \E ffmpeg \in CaptureOutcomes :
         LET c == capture_result(ffmpeg)
         IN  /\ c.raised => Len(hist.run) < MaxRun
             /\ listener' = c.listener
             /\ hist' = c.hist
             /\ camera' = c.camera

\* the capture with a callback that submits nothing to the pipeline
Capture ==
    /\ capture_and_continue
    /\ PipelineIdle

\* the delay doubled without the ceiling
Wake_uncapped ==
    /\ listener.pc = "sleeping"
    /\ listener' = [listener EXCEPT !.pc = "connecting",
                                    !.reconnect_delay = @ * 2]
    /\ hist' = [NoHist EXCEPT !.run = hist.run, !.prior = hist.prior]
    /\ UNCHANGED camera
    /\ PipelineIdle

\* the loop left once the delay has reached the ceiling
Wake_giving_up ==
    /\ listener.pc = "sleeping"
    /\ listener' = [listener EXCEPT
                      !.pc = IF listener.reconnect_delay = MAX_DELAY
                             THEN "gave_up" ELSE "connecting",
                      !.reconnect_delay = IF @ * 2 < MAX_DELAY THEN @ * 2 ELSE MAX_DELAY]
    /\ hist' = [NoHist EXCEPT !.run = hist.run, !.prior = hist.prior]
    /\ UNCHANGED camera
    /\ PipelineIdle

\* lines 206-207 and 136: the sleep ends, the delay doubles up to the
\* ceiling, the loop connects again
Wake ==
    /\ listener.pc = "sleeping"
    /\ listener' = [listener EXCEPT
                      !.pc = "connecting",
                      !.reconnect_delay = IF @ * 2 < MAX_DELAY THEN @ * 2 ELSE MAX_DELAY]
    /\ hist' = [NoHist EXCEPT !.run = hist.run, !.prior = hist.prior]
    /\ UNCHANGED camera
    /\ PipelineIdle

\* the flag set and the reference cleared, the task left running
Stop_flag_only ==
    /\ listener' = [listener EXCEPT !.should_stop = TRUE,
                                    !.listener_task = "None"]
    /\ hist' = [hist EXCEPT !.last = "stop"]
    /\ UNCHANGED camera
    /\ PipelineIdle

\* stop_camera_listener: the flag is set; a task there is is cancelled
\* (the CancelledError is raised at the await the loop is suspended in),
\* awaited, and its reference cleared
Stop ==
    /\ listener' = [listener EXCEPT
                      !.pc = IF listener.listener_task # "None" THEN "stopped" ELSE @,
                      !.should_stop = TRUE,
                      !.listener_task = "None"]
    /\ hist' = [hist EXCEPT !.last = "stop"]
    /\ UNCHANGED camera
    /\ PipelineIdle

\* after start_camera_listener(on_snapshot_callback)
InitListener ==
    /\ InitPipeline(0)
    /\ image = <<>>
    /\ call = NoCall
    /\ recog = NoRecog
    /\ listener \in {Listener("connecting", BASE_DELAY, <<>>, FALSE, cb) :
                        cb \in {"None", "process_snapshot"}}
    /\ camera = <<>>
    /\ hist = NoHist

NextListener ==
    \/ Connect
    \/ ConnectFailed
    \/ Read
    \/ ReadTimeout
    \/ ConnectionLost
    \/ Capture
    \/ Wake
    \/ Stop

SpecListener == InitListener /\ [][NextListener]_vars

\* asyncio.sleep(reconnect_delay) returns once the delay has passed
LiveListener == SpecListener /\ WF_vars(Wake)

(***************************************************************************)
(* The listener with process_snapshot as its callback, beside a pool whose *)
(* five slots are taken by snapshots that came in another way              *)
(***************************************************************************)
\* the snapshots ffmpeg wrote show employee 1
CapturedImage == FaceImage(25)

\* the callback awaited in the loop: the listener stands still until the
\* processing of its snapshot has ended
CaptureSubmit_awaiting ==
    \/ /\ listener.pc = "capturing"
       /\ \E ffmpeg \in CaptureOutcomes :
            LET c == capture_result(ffmpeg)
                submitted == Len(c.hist.forwarded) > Len(hist.forwarded)
            IN  /\ c.raised => Len(hist.run) < MaxRun
                /\ hist' = c.hist
                /\ camera' = c.camera
                /\ IF submitted
                   THEN /\ listener' = [c.listener EXCEPT !.pc = "awaiting_callback"]
                        /\ pc' = Append(pc, "queued")
                        /\ image' = Append(image, CapturedImage)
                        /\ file' = Append(file, "inbox")
                        /\ result' = Append(result, NoResponse)
                        /\ canLog' = Append(canLog, "none")
                        /\ fault' = Append(fault, "none")
                   ELSE /\ listener' = c.listener
                        /\ UNCHANGED <<pc, image, file, result, canLog, fault>>
       /\ UNCHANGED <<now, log, sem, call, recog, req, storage,
                   employees, is_loaded>>
    \/ /\ listener.pc = "awaiting_callback"
       /\ pc[Len(pc)] = "done"
       /\ LET r == handle_messages(listener.buffer, hist.handled)
          IN  /\ listener' = [listener EXCEPT
                                !.pc = IF r.capture THEN "capturing" ELSE "reading",
                                !.buffer = r.buffer]
              /\ hist' = [hist EXCEPT
                            !.handled = r.handled,
                            !.captures = IF r.capture
                                         THEN Append(@, r.handled[Len(r.handled)])
                                         ELSE @]
       /\ UNCHANGED camera
       /\ PipelineIdle

\* lines 180-186 with process_snapshot as the callback:
\* asyncio.create_task(_on_snapshot_callback(snapshot_path)) adds a task
\* that starts before the semaphore; the loop goes on without awaiting it
CaptureSubmit ==
    /\ capture_and_continue
    /\ IF Len(hist'.forwarded) > Len(hist.forwarded)
       THEN /\ pc' = Append(pc, "queued")
            /\ image' = Append(image, CapturedImage)
            /\ file' = Append(file, "inbox")
            /\ result' = Append(result, NoResponse)
            /\ canLog' = Append(canLog, "none")
            /\ fault' = Append(fault, "none")
       ELSE UNCHANGED <<pc, image, file, result, canLog, fault>>
    /\ UNCHANGED <<now, log, sem, call, recog, req, storage,
                   employees, is_loaded>>

\* five snapshots of a stranger inside _process_snapshot_internal, the
\* listener connected, two alarm reports on their way
InitBusy ==
    /\ now = 0
    /\ log = <<>>
    /\ sem = 0
    /\ pc = [s \in 1..SEMAPHORE_SLOTS |-> "admitted"]
    /\ image = [s \in 1..SEMAPHORE_SLOTS |-> FaceImage(170)]
    /\ file = [s \in 1..SEMAPHORE_SLOTS |-> "inbox"]
    /\ result = [s \in 1..SEMAPHORE_SLOTS |-> NoResponse]
    /\ canLog = [s \in 1..SEMAPHORE_SLOTS |-> "none"]
    /\ fault = [s \in 1..SEMAPHORE_SLOTS |-> "none"]
    /\ call = NoCall
    /\ recog = NoRecog
    /\ req = <<>>
    /\ storage = NoStorage
    /\ InitEmployees
    /\ listener = Listener("reading", BASE_DELAY, <<>>, FALSE, "process_snapshot")
    /\ camera = Wire(<<Body(1, TRUE, "1"), Body(2, TRUE, "1")>>)
    /\ hist = NoHist

NextBusy ==
    \/ Read
    \/ ReadTimeout
    \/ ConnectionLost
    \/ CaptureSubmit
    \/ \E s \in Snapshots : Acquire(s)
    \/ \E s \in Snapshots : Recognize(s)
    \/ \E s \in Snapshots : CheckCooldown(s)
    \/ \E s \in Snapshots : RecordEntry(s)

SpecBusy == InitBusy /\ [][NextBusy]_vars

\* the loop's own awaits come back: a read returns or times out, ffmpeg
\* ends or is killed after 10 s.  Nothing is assumed of the pool.
LiveBusy == SpecBusy /\ WF_vars(Read) /\ WF_vars(CaptureSubmit)

(***************************************************************************)
(* Starting and stopping the listener                                      *)
(***************************************************************************)
Callbacks == {"None", "process_snapshot"}

\* the task created and the globals set whatever the state
Start_unconditional ==
    /\ \E cb \in Callbacks :
         listener' = [Listener("connecting", BASE_DELAY, <<>>, FALSE, cb)
                         EXCEPT !.camera_enabled = listener.camera_enabled]
    /\ hist' = [NoHist EXCEPT !.last = "start"]
    /\ camera' = <<>>
    /\ PipelineIdle

\* start_camera_listener(on_snapshot_callback): nothing is done with
\* the camera disabled or a task reference present; otherwise the flag
\* is cleared, the callback stored and the loop started in a new task
Start ==
    /\ \E cb \in Callbacks :
         IF ~listener.camera_enabled \/ listener.listener_task # "None"
         THEN /\ hist' = [hist EXCEPT !.last = "start_noop"]
              /\ UNCHANGED <<listener, camera>>
         ELSE /\ listener' = [Listener("connecting", BASE_DELAY, <<>>, FALSE, cb)
                                 EXCEPT !.camera_enabled = listener.camera_enabled]
              /\ hist' = [NoHist EXCEPT !.last = "start"]
              /\ camera' = <<>>
    /\ PipelineIdle

\* the module as imported: no task, settings.camera_enabled either way
InitLifecycle ==
    /\ InitPipeline(0)
    /\ image = <<>>
    /\ call = NoCall
    /\ recog = NoRecog
    /\ listener \in {[NoListener EXCEPT !.camera_enabled = b] : b \in BOOLEAN}
    /\ camera = <<>>
    /\ hist = NoHist

NextLifecycle ==
    \/ Start
    \/ NextListener

SpecLifecycle == InitLifecycle /\ [][NextLifecycle]_vars

(***************************************************************************)
(* The other callers that guard an entry with the cooldown:                *)
(* POST /api/v1/attendance/log (app/modules/attendance/router.py),         *)
(* AttendanceIntegration.on_face_recognized (attendance/integration.py)    *)
(* and POST /snapshot (app/api/gateway.py).  Each awaits can_log_entry     *)
(* and then, in a second round trip, log_entry or log_exit.                *)
(***************************************************************************)
\* the trace id stored with the row a request creates
RequestTrace(s) == 100 + s

NewRequest(path, e, type, face) ==
    [path |-> path, employee_id |-> e, event_type |-> type, face |-> face,
     pc |-> "received", can_log |-> "none", answer |-> "none"]

\* what can arrive: a logged entry or exit of employee 1, a recognition
\* event of employee 1, an uploaded picture of employee 1 or of a stranger
Requests ==
    <<NewRequest("log_attendance", 1, "entry", NoFaceImage),
      NewRequest("log_attendance", 1, "exit", NoFaceImage),
      NewRequest("on_face_recognized", 1, "entry", NoFaceImage),
      NewRequest("on_face_recognized", 1, "exit", NoFaceImage),
      NewRequest("receive_snapshot", None, "entry", FaceImage(25)),
      NewRequest("receive_snapshot", None, "entry", FaceImage(170))>>

\* the cooldown answer taken for true whatever it is
guard_entry_ignoring(s, e, rejected) ==
    \E db_error \in BOOLEAN :
        LET c == can_log_entry(e, COOLDOWN_SECONDS, log, now, db_error)
        IN  req' = [req EXCEPT ![s] =
                      [@ EXCEPT !.employee_id = e, !.can_log = c,
                                !.pc = IF c = "raised" THEN "done" ELSE "logging",
                                !.answer = IF c = "raised" THEN "500" ELSE "none"]]

\* can_log = await service.can_log_entry(e) and the branch on it: the
\* handler ends with its answer for a rejection when it is false, with
\* the exception when the query fails, and goes on to record otherwise
guard_entry(s, e, rejected) ==
    \E db_error \in BOOLEAN :
        LET c == can_log_entry(e, COOLDOWN_SECONDS, log, now, db_error)
        IN  req' = [req EXCEPT ![s] =
                      [@ EXCEPT !.employee_id = e, !.can_log = c,
                                !.pc = IF c = "true" THEN "logging" ELSE "done",
                                !.answer = IF c = "raised" THEN "500"
                                           ELSE IF c = "false" THEN rejected
                                           ELSE "none"]]

\* await service.log_entry(...) or log_exit(...): the row, or the
\* exception of the database leaving the handler
record_event(s, type, conf, accepted) ==
    /\ Len(log) < MaxEvents
    /\ \E db_error \in BOOLEAN :
         /\ log' = IF db_error THEN log
                   ELSE create_log(log, req[s].employee_id, type, conf,
                                   RequestTrace(s), now)
         /\ req' = [req EXCEPT ![s] =
                      [@ EXCEPT !.pc = "done",
                                !.answer = IF db_error THEN "500" ELSE accepted]]

RequestFrame ==
    UNCHANGED <<now, sem, pc, image, file, result, canLog, fault, call, recog,
                listener, camera, hist, storage, employees, is_loaded>>

\* router.py lines 48-57: entries are checked, exits are not
LogAttendanceGuard(s) ==
    /\ req[s].path = "log_attendance"
    /\ req[s].pc = "received"
    /\ IF req[s].event_type = "entry"
       THEN guard_entry(s, req[s].employee_id, "429")
       ELSE req' = [req EXCEPT ![s].pc = "logging"]
    /\ UNCHANGED log
    /\ RequestFrame

\* router.py lines 60-72
LogAttendanceRecord(s) ==
    /\ req[s].path = "log_attendance"
    /\ req[s].pc = "logging"
    /\ IF req[s].event_type = "entry"
       THEN record_event(s, "entry", 75, "200")
       ELSE record_event(s, "exit", EXIT_CONFIDENCE, "200")
    /\ RequestFrame

\* integration.py lines 64-70: the check is made for either event type
OnFaceRecognizedGuard(s) ==
    /\ req[s].path = "on_face_recognized"
    /\ req[s].pc = "received"
    /\ guard_entry(s, req[s].employee_id, "None")
    /\ UNCHANGED log
    /\ RequestFrame

\* integration.py lines 73-83
OnFaceRecognizedRecord(s) ==
    /\ req[s].path = "on_face_recognized"
    /\ req[s].pc = "logging"
    /\ IF req[s].event_type = "entry"
       THEN record_event(s, "entry", 75, "log")
       ELSE record_event(s, "exit", EXIT_CONFIDENCE, "log")
    /\ RequestFrame

\* gateway.py lines 163-208: every embedding is loaded, the picture
\* recognised, and a match checked against the cooldown; without a match
\* and on a rejection the route answers 200 with the recognition result
ReceiveSnapshotGuard(s) ==
    /\ req[s].path = "receive_snapshot"
    /\ req[s].pc = "received"
    /\ LET r == recognize_face(req[s].face, employees_with_embeddings)
       IN  IF r.status = "match" /\ r.person_id # None
           THEN guard_entry(s, r.person_id, "200")
           ELSE req' = [req EXCEPT ![s] = [@ EXCEPT !.pc = "done", !.answer = "200"]]
    /\ UNCHANGED log
    /\ RequestFrame

\* gateway.py lines 198-220
ReceiveSnapshotRecord(s) ==
    /\ req[s].path = "receive_snapshot"
    /\ req[s].pc = "logging"
    /\ record_event(s, "entry",
                    recognize_face(req[s].face, employees_with_embeddings).confidence,
                    "200")
    /\ RequestFrame

\* one snapshot of employee 1 in the pipeline and MaxRequests requests,
\* numbered in the order of the list above: the handlers run in any order
\* and the number of a request only tells its row from the others
InitCallers ==
    /\ now = 0
    /\ log = <<>>
    /\ sem = SEMAPHORE_SLOTS
    /\ pc = <<"queued">>
    /\ image = <<FaceImage(25)>>
    /\ file = <<"inbox">>
    /\ result = <<NoResponse>>
    /\ canLog = <<"none">>
    /\ fault = <<"none">>
    /\ call = NoCall
    /\ recog = NoRecog
    /\ InitCamera
    /\ storage = NoStorage
    /\ InitEmployees
    /\ \E kind \in [1..MaxRequests -> DOMAIN Requests] :
         /\ \A s, t \in 1..MaxRequests : s < t => kind[s] <= kind[t]
         /\ req = [s \in 1..MaxRequests |-> Requests[kind[s]]]

NextCallers ==
    \/ \E s \in DOMAIN req : LogAttendanceGuard(s)
    \/ \E s \in DOMAIN req : LogAttendanceRecord(s)
    \/ \E s \in DOMAIN req : OnFaceRecognizedGuard(s)
    \/ \E s \in DOMAIN req : OnFaceRecognizedRecord(s)
    \/ \E s \in DOMAIN req : ReceiveSnapshotGuard(s)
    \/ \E s \in DOMAIN req : ReceiveSnapshotRecord(s)
    \/ Next

SpecCallers == InitCallers /\ [][NextCallers]_vars

(***************************************************************************)
(* app/core/storage.py: StorageManager                                     *)
(*                                                                         *)
(* Time is in hours here.  st_mtime and clock are instants (hours since    *)
(* the epoch); a naive datetime is the number of hours it shows.  A        *)
(* directory is known by its name: "." is debug_photos itself, a date      *)
(* directory is named by its day.  Directories carry no state of their     *)
(* own: rmdir of an empty one changes no file.                             *)
(***************************************************************************)
HOURS_PER_DAY == 24

\* ttl_days as passed to cleanup_expired_files
TtlDays == {1}

\* the host's zone: New York, UTC, Moscow
UtcOffsets == {-5, 0, 3}

StorageSteps == {4, 22}

RootDir == "."

\* get_debug_photos_path: strftime("%Y-%m-%d") of a naive UTC datetime
date_str(timestamp) == ToString(timestamp \div HOURS_PER_DAY)

\* a regular file; unlink_denied: unlink raises PermissionError
StoredFile(dir, name, st_mtime, st_size, unlink_denied) ==
    [dir |-> dir, name |-> name, st_mtime |-> st_mtime, st_size |-> st_size,
     unlink_denied |-> unlink_denied, exists |-> TRUE]

\* datetime.utcnow(): the instant as a naive UTC datetime
utcnow(clock) == clock

\* datetime.fromtimestamp(ts): the instant as a naive LOCAL datetime
fromtimestamp(st_mtime, utc_offset) == st_mtime + utc_offset

\* lines 148-175: the loop over target_path.rglob("*"), from item i on
RECURSIVE cleanup_loop(_, _, _, _, _)
cleanup_loop(files, i, cutoff_date, utc_offset, dry_run) ==
    IF i > Len(files)
    THEN [files |-> files, files_deleted |-> 0, bytes_freed |-> 0]
    ELSE LET item     == files[i]
             mtime    == fromtimestamp(item.st_mtime, utc_offset)
             expired  == /\ item.exists
                         /\ item.name # ".gitkeep"
                         /\ mtime < cutoff_date
             unlinked == expired /\ ~dry_run /\ ~item.unlink_denied
             counted  == expired /\ (dry_run \/ ~item.unlink_denied)
             rest     == cleanup_loop(
                             IF unlinked
                             THEN [files EXCEPT ![i].exists = FALSE] ELSE files,
                             i + 1, cutoff_date, utc_offset, dry_run)
         IN  [files |-> rest.files,
              files_deleted |-> rest.files_deleted + IF counted THEN 1 ELSE 0,
              bytes_freed |-> rest.bytes_freed
                                + IF counted THEN item.st_size ELSE 0]

\* what iterdir of a directory yields
contents(files, dir) ==
    {i \in DOMAIN files : files[i].dir = dir /\ files[i].exists}

\* _cleanup_empty_directories: a subdirectory that is empty or holds only
\* a .gitkeep loses the .gitkeep and is removed; debug_photos itself stays
cleanup_empty_directories(files) ==
    [i \in DOMAIN files |->
        IF /\ files[i].dir # RootDir
           /\ files[i].exists
           /\ files[i].name = ".gitkeep"
           /\ contents(files, files[i].dir) = {i}
           /\ ~files[i].unlink_denied
        THEN [files[i] EXCEPT !.exists = FALSE]
        ELSE files[i]]

StorageFrame ==
    UNCHANGED <<now, log, sem, pc, image, file, result, canLog, fault, call,
                recog, listener, camera, hist, req, employees, is_loaded>>

\* save_debug_photo: a new file in the directory of today's date
SaveDebugPhoto ==
    /\ Len(storage.files) < MaxFiles
    /\ \E st_size \in {1, 2}, unlink_denied \in BOOLEAN :
         storage' = [storage EXCEPT
                       !.files = Append(@, StoredFile(date_str(utcnow(storage.clock)),
                                                      "photo.jpg", storage.clock,
                                                      st_size, unlink_denied)),
                       !.last = NoCleanup]
    /\ StorageFrame

\* cleanup_expired_files(directory=None, ttl_days, dry_run)
CleanupExpiredFiles ==
    /\ \E ttl_days \in TtlDays, dry_run \in BOOLEAN :
         LET cutoff_date == utcnow(storage.clock) - ttl_days * HOURS_PER_DAY
             swept == cleanup_loop(storage.files, 1, cutoff_date,
                                   storage.utc_offset, dry_run)
         IN  storage' = [storage EXCEPT
                           !.files = IF dry_run THEN swept.files
                                     ELSE cleanup_empty_directories(swept.files),
                           !.last = [op |-> "cleanup_expired_files",
                                     dry_run |-> dry_run,
                                     cutoff_date |-> cutoff_date,
                                     before |-> storage.files,
                                     files_deleted |-> swept.files_deleted,
                                     bytes_freed |-> swept.bytes_freed]]
    /\ StorageFrame

\* time passes on the host
StorageTick ==
    /\ \E d \in StorageSteps :
         /\ storage.clock + d <= MaxClock
         /\ storage' = [storage EXCEPT !.clock = @ + d]
    /\ StorageFrame

\* a host in some zone; debug_photos empty, or with the .gitkeep of the
\* checkout in it or in a date directory
InitStorage ==
    /\ now = 0
    /\ log = <<>>
    /\ sem = SEMAPHORE_SLOTS
    /\ pc = <<>>
    /\ file = <<>>
    /\ result = <<>>
    /\ canLog = <<>>
    /\ fault = <<>>
    /\ req = <<>>
    /\ InitEmployees
    /\ \E utc_offset \in UtcOffsets, dir \in {RootDir, date_str(0)} :
         storage \in {[NoStorage EXCEPT !.utc_offset = utc_offset],
                      [NoStorage EXCEPT
                         !.utc_offset = utc_offset,
                         !.files = <<StoredFile(dir, ".gitkeep", 0, 0, FALSE)>>]}
    /\ image = <<>>
    /\ call = NoCall
    /\ recog = NoRecog
    /\ InitCamera

NextStorage ==
    \/ SaveDebugPhoto
    \/ CleanupExpiredFiles
    \/ StorageTick

SpecStorage == InitStorage /\ [][NextStorage]_vars

(***************************************************************************)
(* Properties                                                              *)
(***************************************************************************)
TraceEvents(s, lg) == {i \in 1..Len(lg) : lg[i].trace_id = s}

\* C1: however many snapshots are submitted, never more than 5 of them are
\* inside _process_snapshot_internal (reading, recognising, recording).
C1_ConcurrencyBound == Cardinality(InFlight) <= 5

C1_Witness ==
    /\ Cardinality(InFlight) = 5
    /\ \E s \in Snapshots : pc[s] = "queued"
    /\ \E s \in Snapshots : pc[s] = "logging"

\* C2: any two attendance events of one employee recorded by the snapshot
\* pipeline are at least COOLDOWN_SECONDS apart, in every interleaving.
C2_CooldownSpacing ==
    \A i, j \in 1..Len(log) :
        (i < j /\ log[i].employee_id = log[j].employee_id)
            => Abs(log[j].timestamp - log[i].timestamp) >= 300

\* C3: can_log_entry(e) is true when e has no event, false when an event
\* of e is less than cooldown_seconds old, and true again once the most
\* recent event of e is at least cooldown_seconds old.
C3_CanLogEntry ==
    (call.op = "can_log_entry" /\ ~call.db_error) =>
        LET rows == EventsOf(call.employee_id, log)
        IN  /\ rows = {} => call.result = "true"
            /\ (\E i \in rows : call.at - log[i].timestamp < 300)
                   => call.result = "false"
            /\ (\A i \in rows : call.at - log[i].timestamp >= 300)
                   => call.result = "true"

C3_Witness ==
    /\ call.op = "can_log_entry"
    /\ call.result = "true"
    /\ \E i \in EventsOf(call.employee_id, log) :
           call.at - log[i].timestamp = 300

Appended(s) ==
    /\ pc[s] = "logging"
    /\ pc'[s] = "done"
    /\ fault'[s] = "none"

\* the cooldown allows an entry of the employee matched by snapshot s
CooldownAllows(s) ==
    \A i \in EventsOf(result[s].person_id, log) :
        now - log[i].timestamp >= 300

C9_FailureReturnsFalse ==
    \A s \in Snapshots : fault[s] = "check" => canLog[s] = "false"

\* C9 as amended: a persistence failure during can_log_entry escapes the
\* call as an exception; the call never returns true, and the pipeline
\* appends no event for that snapshot and leaves its file in place.
C9_FailureEscapes ==
    \A s \in Snapshots :
        fault[s] = "check" =>
            /\ canLog[s] = "raised"
            /\ pc[s] = "done"
            /\ TraceEvents(s, log) = {}
            /\ file[s] = "inbox"

C9_Witness ==
    \E s \in Snapshots : fault[s] = "check" /\ pc[s] = "done"

C11_UnrecognizedLeftInPlace ==
    \A s \in Snapshots :
        (pc[s] = "done" /\ result[s].status \in {"unknown", "low_confidence", "error"})
            => (file[s] = "inbox" /\ TraceEvents(s, log) = {})

C11_Witness ==
    /\ \E s \in Snapshots : pc[s] = "done" /\ result[s].status = "low_confidence"
    /\ \E s \in Snapshots : pc[s] = "done" /\ result[s].status = "error"
    /\ Len(log) = 0

\* C12: no exception leaves recognize_face: an undecodable image, an error
\* of the provider and an error of the matching step each give a response
\* with status error and a message.
C12_ErrorsBecomeResponses ==
    recog.response.status # "none" =>
        /\ recog.response.status \in
              {"match", "low_confidence", "unknown", "no_face", "error"}
        /\ (\/ recog.image.kind \in {"garbage", "provider_error"}
            \/ /\ recog.image.kind = "face"
               /\ \E i \in 1..Len(recog.index) : Len(recog.index[i].embedding) # 1)
             => /\ recog.response.status = "error"
                /\ recog.response.error_message # ""
                /\ recog.response.person_id = None

C12_Witness ==
    /\ recog.response.status = "error"
    /\ recog.image = GarbageFile

\* the same inside the pipeline: the task of such a snapshot runs to its
\* end and gives its slot back
C12_PipelineWitness ==
    /\ \E s \in Snapshots : pc[s] = "done" /\ result[s].status = "error"
    /\ sem = SEMAPHORE_SLOTS

\* C13: with an empty index a detected face is unknown, with confidence 0
\* and no person.
C13_EmptyIndexUnknown ==
    (recog.response.status # "none" /\ recog.image.kind = "face"
                                    /\ Len(recog.index) = 0) =>
        /\ recog.response.status = "unknown"
        /\ recog.response.confidence = 0
        /\ recog.response.person_id = None

C13_Witness ==
    /\ recog.response.status = "unknown"
    /\ recog.image = FaceImage(0)
    /\ recog.index = <<>>

\* the least distance between a target and the entries of an index
MinDistance(target, idx) ==
    LET ds == {Abs(target[1] - idx[i].embedding[1]) : i \in 1..Len(idx)}
    IN  CHOOSE x \in ds : \A y \in ds : x <= y

\* C14: the confidence is 1 - d clamped to [0, 1] for the least distance
\* d: 1.0 at d = 0, 0.0 for every d >= 1.0, and never larger for a larger
\* distance.
C14_ConfidenceFromDistance ==
    (recog.response.status \notin {"none", "error"} /\ recog.image.kind = "face"
                                                    /\ Len(recog.index) > 0) =>
        LET d == MinDistance(recog.image.embedding, recog.index)
            c == recog.response.confidence
        IN  /\ c >= 0 /\ c <= 100
            /\ d = 0 => c = 100
            /\ d >= 100 => c = 0
            /\ d < 100 => c = 100 - d
            /\ \A x \in 0..MaxCoord :
                  MinDistance(<<x>>, recog.index) >= d
                     => find_best_match(<<x>>, recog.index,
                                        DISTANCE_THRESHOLD).confidence <= c

\* a face at distance 1.30 of the nearest entry
C14_Witness ==
    /\ recog.response.status = "unknown"
    /\ recog.response.confidence = 0
    /\ recog.image = FaceImage(130)
    /\ recog.index = <<EmployeeEmbedding(1, 0)>>

(***************************************************************************)
(* Properties of the event listener                                        *)
(***************************************************************************)
Last(seq) == seq[Len(seq)]

Backoff(delay) == IF delay * 2 < MAX_DELAY THEN delay * 2 ELSE MAX_DELAY

RECURSIVE Flatten(_)
Flatten(seqs) ==
    IF seqs = <<>> THEN <<>> ELSE Head(seqs) \o Flatten(Tail(seqs))

\* the complete messages in a stretch of the stream, oldest first
RECURSIVE complete_messages(_)
complete_messages(bytes) ==
    IF find(bytes) = 0 THEN <<>>
    ELSE <<SubSeq(bytes, 1, find(bytes) + 1)>>
            \o complete_messages(SubSeq(bytes, find(bytes) + 2, Len(bytes)))

Occurrences(m, seq) == Cardinality({i \in 1..Len(seq) : seq[i] = m})

\* C15, as stated: over the delays slept after failed connection
\* attempts alone, each run of consecutive failed attempts starts at 5 s,
\* doubles after each failure, never decreases and never exceeds 60 s.
C15_FailedAttemptRunsStartAtBase ==
    \A i \in 1..Len(hist.run) :
        hist.run[i].after = "attempt" =>
            /\ hist.run[i].delay <= MAX_DELAY
            /\ IF i = 1 \/ hist.run[i - 1].after # "attempt"
               THEN hist.run[i].delay = BASE_DELAY
               ELSE /\ hist.run[i].delay = Backoff(hist.run[i - 1].delay)
                    /\ hist.run[i].delay >= hist.run[i - 1].delay

\* C15, amended: over all delays slept since the last successful
\* connection (or the start), the loss of the connection counted as a
\* failure, the first is 5 s, each next one is the double of the one
\* before up to 60 s, and none is smaller than the one before.
C15_BackoffDelays ==
    \A i \in 1..Len(hist.run) :
        /\ hist.run[i].delay <= MAX_DELAY
        /\ IF i = 1
           THEN hist.run[i].delay = BASE_DELAY
           ELSE /\ hist.run[i].delay = Backoff(hist.run[i - 1].delay)
                /\ hist.run[i].delay >= hist.run[i - 1].delay

\* a connection lost and five failed attempts after it
C15_Witness ==
    /\ Len(hist.run) >= 6
    /\ hist.run[1].after = "loss"
    /\ hist.run[5].delay = MAX_DELAY
    /\ hist.run[6].delay = MAX_DELAY

\* C16: after a successful connection the delay is at its base: while
\* the connection is open reconnect_delay is 5, and the delay slept on
\* its loss is 5 s, whatever was slept before the connection.
C16_ResetOnConnect ==
    /\ listener.pc \in {"reading", "capturing"}
          => listener.reconnect_delay = BASE_DELAY
    /\ (hist.run # <<>> /\ hist.run[1].after = "loss")
          => hist.run[1].delay = BASE_DELAY

\* three failed attempts, a connection, its loss
C16_Witness ==
    /\ hist.prior >= 3
    /\ listener.pc = "sleeping"
    /\ hist.run = <<Slept(BASE_DELAY, "loss")>>

\* C17: unless the listener is stopped, every sleep that follows a
\* failure (a refused or failed attempt, a read error, the close of the
\* stream) ends in another connection attempt.
C17_RetriesForever ==
    (listener.pc = "sleeping") ~> (listener.pc \in {"connecting", "stopped"})

\* the attempt made after six consecutive failures
C17_Witness ==
    /\ listener.pc = "connecting"
    /\ Len(hist.run) >= 6
    /\ ~listener.should_stop

\* C18: on an open connection the messages handled so far, in the order
\* handled, followed by the buffer are the bytes received, in the order
\* received; the captures requested are, in the same order, the handled
\* messages that are alarms, and a capture in progress is for the message
\* handled last.
C18_ArrivalOrder ==
    listener.pc \in {"reading", "capturing"} =>
        /\ Flatten(hist.handled) \o listener.buffer = hist.received
        /\ \A i \in 1..Len(hist.handled) :
              Cardinality(TagPositions(hist.handled[i])) = 1
        /\ hist.captures =
              SelectSeq(hist.handled, LAMBDA m : is_alarm(parse_alarm_event(m)))
        /\ listener.pc = "capturing" =>
              /\ hist.captures # <<>>
              /\ Last(hist.captures) = Last(hist.handled)

\* the capture for the first message runs while a complete later
\* message, arrived in the same read, waits in the buffer
C18_Witness ==
    /\ listener.pc = "capturing"
    /\ Len(hist.handled) = 1
    /\ find(listener.buffer) # 0

\* at rest (waiting for bytes, or asleep after the end of the
\* connection) every complete message received has one capture request
\* if it is an alarm report with flag 1 and none otherwise
AlarmsCaptured ==
    listener.pc \in {"reading", "sleeping"} =>
        LET ms == complete_messages(hist.received)
        IN  \A i \in 1..Len(ms) :
                Occurrences(ms[i], hist.captures)
                    = IF is_alarm(parse_alarm_event(ms[i])) THEN 1 ELSE 0

\* C19: each complete message that is an alarm report with flag 1 gets
\* exactly one capture request and every other message none; handling
\* messages that ask for no capture leaves the listener connected and
\* reading, with its delay unchanged.
C19_OneCapturePerAlarm ==
    [][ /\ AlarmsCaptured'
        /\ (/\ listener.pc \in {"reading", "capturing"}
            /\ listener'.pc # "stopped"
            /\ Len(hist'.handled) > Len(hist.handled)
            /\ Len(hist'.captures) = Len(hist.captures))
              => /\ listener'.pc = "reading"
                 /\ listener'.reconnect_delay = listener.reconnect_delay ]_vars

\* C20: a capture that ends without a usable file (timeout, exception,
\* missing or small file) hands nothing to the callback, is not requested
\* again, and leaves the listener connected with its delay unchanged.
C20_FailedCaptureSwallowed ==
    [][ (/\ Len(hist'.outcomes) > Len(hist.outcomes)
         /\ Last(hist'.outcomes) # "ok")
           => /\ hist'.forwarded = hist.forwarded
              /\ listener'.pc \in {"reading", "capturing"}
              /\ listener'.reconnect_delay = listener.reconnect_delay
              /\ Occurrences(Last(hist.captures), hist'.captures) = 1 ]_vars

(***************************************************************************)
(* Properties of starting and stopping                                     *)
(***************************************************************************)
\* what the loop does and has done, the calls apart
Activity(l, h) ==
    <<l.pc, l.reconnect_delay, l.buffer, h.run, h.prior, h.keepalive,
      h.received, h.handled, h.captures, h.outcomes, h.forwarded>>

\* C21: a call of start_camera_listener made while a task reference is
\* present or the camera is disabled changes nothing: the task, the
\* callback, the stop flag and the loop's state stay as they are.
C21_StartIdempotent ==
    [][ (/\ hist'.last \in {"start", "start_noop"}
         /\ hist'.last # hist.last
         /\ (listener.listener_task # "None" \/ ~listener.camera_enabled))
           => /\ listener' = listener
              /\ camera' = camera
              /\ Activity(listener', hist') = Activity(listener, hist) ]_vars

\* a second start while the first listener is busy with a capture
C21_Witness ==
    /\ hist.last = "start_noop"
    /\ listener.listener_task = "task"
    /\ listener.pc = "capturing"

\* C22: stop_camera_listener leaves the loop terminated and the task
\* reference cleared, whatever the loop was doing; with no task nothing
\* connects, reads, captures or sleeps, and the only thing that happens
\* next is a start with a fresh loop (delay 5, empty record).
C22_StopTerminates ==
    [][ /\ (hist'.last = "stop" /\ hist.last # "stop")
           => /\ listener'.pc \in {"stopped", "idle"}
              /\ listener'.listener_task = "None"
              /\ listener'.should_stop
        /\ listener.listener_task = "None"
           => \/ /\ listener'.listener_task = "None"
                 /\ camera' = camera
                 /\ Activity(listener', hist') = Activity(listener, hist)
              \/ /\ hist'.last = "start"
                 /\ listener.camera_enabled
                 /\ listener' = [Listener("connecting", BASE_DELAY, <<>>, FALSE,
                                          listener'.on_snapshot_callback)
                                   EXCEPT !.camera_enabled = TRUE]
                 /\ camera' = <<>>
                 /\ hist' = [NoHist EXCEPT !.last = "start"] ]_vars

\* stopped in the middle of a capture, after a second failure
C22_Witness ==
    /\ hist.last = "stop"
    /\ listener.pc = "stopped"
    /\ listener.listener_task = "None"
    /\ Len(hist.captures) > Len(hist.outcomes)

(***************************************************************************)
(* Properties of the attendance service, continued                         *)
(***************************************************************************)
\* C23: a successful log_entry or log_exit adds exactly one row, for the
\* employee and of the type asked for, at the end of the log, however
\* young the employee's previous row is.
C23_LogAlwaysAppends ==
    [][ (/\ call'.op \in {"log_entry", "log_exit"}
         /\ call'.result = "ok"
         /\ now' = now)
           => /\ Len(log') = Len(log) + 1
              /\ SubSeq(log', 1, Len(log)) = log
              /\ log'[Len(log')].employee_id = call'.employee_id
              /\ log'[Len(log')].timestamp = now
              /\ log'[Len(log')].event_type =
                    IF call'.op = "log_entry" THEN "entry" ELSE "exit" ]_vars

\* an entry recorded in the same second as the employee's previous entry
C23_Witness ==
    /\ call.op = "log_entry"
    /\ call.result = "ok"
    /\ Len(log) >= 2
    /\ log[Len(log)].employee_id = call.employee_id
    /\ log[Len(log)].event_type = "entry"
    /\ \E i \in 1..(Len(log) - 1) :
          /\ log[i].employee_id = call.employee_id
          /\ log[i].event_type = "entry"
          /\ log[i].timestamp = log[Len(log)].timestamp

\* C24: on each guarded path a caller whose can_log_entry returned false
\* has ended without a row of its own in the log; POST /log has answered
\* 429, on_face_recognized has returned None, POST /snapshot has answered
\* with the recognition result; the pipeline's task has ended.
C24_RejectedCallersAppendNothing ==
    /\ \A s \in DOMAIN req :
          req[s].can_log = "false" =>
              /\ req[s].pc = "done"
              /\ \A i \in 1..Len(log) : log[i].trace_id # RequestTrace(s)
              /\ req[s].path = "log_attendance" => req[s].answer = "429"
              /\ req[s].path = "on_face_recognized" => req[s].answer = "None"
              /\ req[s].path = "receive_snapshot" => req[s].answer = "200"
    /\ \A s \in Snapshots :
          canLog[s] = "false" => (pc[s] = "done" /\ TraceEvents(s, log) = {})

\* POST /log and on_face_recognized both rejected after one entry
C24_Witness ==
    /\ Len(log) = 1
    /\ \E s, t \in DOMAIN req :
          /\ req[s].path = "log_attendance" /\ req[s].answer = "429"
          /\ req[t].path = "on_face_recognized" /\ req[t].answer = "None"
          /\ req[t].can_log = "false"

\* the same for POST /snapshot and the pipeline
C24_SnapshotWitness ==
    /\ Len(log) = 1
    /\ \E s \in DOMAIN req :
          /\ req[s].path = "receive_snapshot"
          /\ req[s].can_log = "false"
          /\ req[s].answer = "200"
    /\ \E s \in Snapshots : canLog[s] = "false" /\ pc[s] = "done"

\* the employees whose most recent events (those of the greatest
\* timestamp) are entries
EntryLatest(lg) ==
    {e \in Employees :
        /\ LastLogs(e, lg) # {}
        /\ \A i \in LastLogs(e, lg) : lg[i].event_type = "entry"}

\* C25: get_office_status lists exactly the employees whose most recent
\* event is an entry, each of them once, and present_count is their number.
C25_PresentEachOnce ==
    call.op = "get_office_status" =>
        /\ call.count = Cardinality(EntryLatest(log))
        /\ \A e \in Employees :
              Cardinality({i \in get_present_employees(log) :
                              log[i].employee_id = e})
                  = IF e \in EntryLatest(log) THEN 1 ELSE 0

\* C26: no step of the service or of the pipeline changes or removes a
\* row of the attendance log: the log before the step is a prefix of the
\* log after it.
C26_AppendOnly ==
    [][ /\ Len(log') >= Len(log)
        /\ SubSeq(log', 1, Len(log)) = log ]_vars

\* rows written by the service and by the pipeline, then read by the
\* history query
C26_Witness ==
    /\ call.op = "get_attendance_history"
    /\ call.count = 3
    /\ \E i, j \in 1..Len(log) :
          /\ i < j
          /\ log[i].trace_id = None
          /\ log[j].trace_id # None
          /\ log[i].employee_id = log[j].employee_id

\* C27: a snapshot submitted while all 5 slots are taken is neither
\* dropped nor run beyond the limit; with every admitted processing coming
\* to its end it is eventually admitted and processed.
C27_QueuedEventuallyProcessed ==
    (\E s \in Snapshots : pc[s] = "queued" /\ semaphore_locked(sem))
        ~> (\A s \in Snapshots : pc[s] = "done")

\* a snapshot waiting while five are being processed
C27_Witness ==
    /\ semaphore_locked(sem)
    /\ Cardinality(InFlight) = SEMAPHORE_SLOTS
    /\ \E s \in Snapshots : pc[s] = "queued"

\* C28: a read that times out after 60 s without data is no failure: the
\* listener stays connected and reading, keeps its buffer, does not sleep
\* and leaves the reconnect delay as it was.
C28_IdleTimeoutIsNoFailure ==
    [][ (~hist.keepalive /\ hist'.keepalive)
          => /\ listener.pc = "reading"
             /\ listener'.pc = "reading"
             /\ listener'.buffer = listener.buffer
             /\ listener'.reconnect_delay = listener.reconnect_delay
             /\ hist'.run = hist.run
             /\ camera' = camera ]_vars

\* a connection that has timed out once, has handled a message, holds
\* part of the next one and has never slept
C28_Witness ==
    /\ hist.keepalive
    /\ listener.pc = "reading"
    /\ listener.buffer # <<>>
    /\ hist.handled # <<>>
    /\ hist.run = <<>>

\* C29: recognize_face classifies by the configured thresholds: match
\* from settings.recognition_match_threshold up, low_confidence from
\* settings.recognition_low_confidence_threshold up, unknown below.
C29_ConfiguredThresholdsApply ==
    recog.response.status \in {"match", "low_confidence", "unknown"} =>
        recog.response.status =
            IF recog.response.confidence >= recog.settings.recognition_match_threshold
            THEN "match"
            ELSE IF recog.response.confidence
                       >= recog.settings.recognition_low_confidence_threshold
            THEN "low_confidence"
            ELSE "unknown"

\* the files of the last cleanup that are older than its cutoff
Expired(c) ==
    {i \in DOMAIN c.before :
        /\ c.before[i].exists
        /\ c.before[i].name # ".gitkeep"
        /\ c.before[i].st_mtime < c.cutoff_date}

RECURSIVE TotalSize(_, _)
TotalSize(files, S) ==
    IF S = {} THEN 0
    ELSE LET i == CHOOSE j \in S : TRUE
         IN  files[i].st_size + TotalSize(files, S \ {i})

\* C30: cleanup_expired_files removes exactly the files modified before
\* the cutoff (now minus ttl_days): no newer file and no .gitkeep goes;
\* with dry_run nothing goes; either way the files older than the cutoff
\* are what (files_deleted, bytes_freed) counts.
C30_CleanupRemovesExactlyExpired ==
    storage.last.op = "cleanup_expired_files" =>
        LET c == storage.last
        IN  /\ c.files_deleted = Cardinality(Expired(c))
            /\ c.bytes_freed = TotalSize(c.before, Expired(c))
            /\ \A i \in DOMAIN c.before :
                  storage.files[i].exists
                      <=> /\ c.before[i].exists
                          /\ (c.dry_run \/ i \notin Expired(c))

\* C31: the cooldown runs from the employee's most recent event whatever
\* its type: with an exit as the most recent event can_log_entry is false
\* while the exit is younger than cooldown_seconds and true from then on.
C31_CooldownAfterExit ==
    (call.op = "can_log_entry" /\ ~call.db_error) =>
        \A i \in LastLogs(call.employee_id, log) :
            log[i].event_type = "exit" =>
                (call.result = "false"
                    <=> call.at - log[i].timestamp < COOLDOWN_SECONDS)

\* refused 150 s after an exit that came 300 s after the entry
C31_Witness ==
    /\ call.op = "can_log_entry"
    /\ call.result = "false"
    /\ \E i \in LastLogs(call.employee_id, log) :
          /\ log[i].event_type = "exit"
          /\ call.at - log[i].timestamp = 150
          /\ \E j \in EventsOf(call.employee_id, log) :
                /\ log[j].event_type = "entry"
                /\ call.at - log[j].timestamp >= COOLDOWN_SECONDS

\* C32: however the stream of a connection was cut into reads, once the
\* listener waits for bytes again it has handled exactly the complete
\* messages of everything received, as if received in one piece, and the
\* incomplete tail, which holds no end marker, is in the buffer.
C32_FramingIgnoresChunks ==
    listener.pc = "reading" =>
        /\ hist.handled = complete_messages(hist.received)
        /\ find(listener.buffer) = 0
        /\ listener.buffer =
              SubSeq(hist.received, Len(Flatten(hist.handled)) + 1,
                     Len(hist.received))

\* a message handled, and of the next one the body and the first half of
\* the end marker received: the read ended inside </XML_TOPSEE>
C32_Witness ==
    /\ listener.pc = "reading"
    /\ Len(hist.handled) = 1
    /\ Len(listener.buffer) = 2
    /\ listener.buffer[2].kind = "tag_head"

\* C33: the two presence views agree, ties of timestamps included:
\* get_employee_status(e) reports IN_OFFICE iff e is among the employees
\* get_present_employees returns.
C33_PresenceViewsAgree ==
    call.op = "get_employee_status" =>
        (call.result = "in_office"
            <=> \E i \in get_present_employees(log) :
                    log[i].employee_id = call.employee_id)

\* C34: the listener does not wait for the pool.  With nothing assumed
\* about the progress of any processing, the slots may stay taken for
\* good, a listener that is capturing always gets back to the channel
\* (or to the end of the connection), and whatever the camera sends is
\* read.
C34_ListenerIndependentOfPool ==
    /\ (listener.pc = "capturing") ~> (listener.pc \in {"reading", "sleeping"})
    /\ <>(camera = <<>>)

\* all five slots taken by others, both alarms handled and both snapshots
\* handed over, their tasks waiting for a slot, the listener reading
C34_Witness ==
    /\ sem = 0
    /\ \A s \in 1..SEMAPHORE_SLOTS : pc[s] = "admitted"
    /\ Len(hist.forwarded) = 2
    /\ Len(pc) = SEMAPHORE_SLOTS + 2
    /\ \A s \in (SEMAPHORE_SLOTS + 1)..Len(pc) : pc[s] = "queued"
    /\ listener.pc = "reading"

(***************************************************************************)
(* Properties of the recognition engine, continued                         *)
(***************************************************************************)
\* the entries of an index at the least distance from a target
Nearest(target, idx) ==
    {i \in 1..Len(idx) :
        euclidean_distance(target, idx[i].embedding) = MinDistance(target, idx)}

\* C35: the person find_best_match returns is the one of the first entry,
\* in index order, among the entries at the least distance from the
\* target: no entry is strictly closer and no equally close entry comes
\* earlier.  A person is returned whenever the least distance is within
\* the threshold.
C35_FirstNearest ==
    (recog.response.status \notin {"none", "error"} /\ recog.image.kind = "face"
                                                    /\ Len(recog.index) > 0) =>
        LET target == recog.image.embedding
            m      == find_best_match(target, recog.index, DISTANCE_THRESHOLD)
            first  == CHOOSE i \in Nearest(target, recog.index) :
                         \A j \in Nearest(target, recog.index) : i <= j
        IN  /\ m.person_id # None <=>
                  MinDistance(target, recog.index) <= DISTANCE_THRESHOLD
            /\ m.person_id # None =>
                  m.person_id = recog.index[first].person_id
            /\ recog.response.status \in {"match", "low_confidence"} =>
                  recog.response.person_id = recog.index[first].person_id

\* a face half way between the two entries of an index that lists
\* employee 2 first
C35_Witness ==
    /\ recog.index = <<EmployeeEmbedding(2, 100), EmployeeEmbedding(1, 0)>>
    /\ recog.image = FaceImage(50)
    /\ recog.response.status = "low_confidence"
    /\ recog.response.person_id = 2

(***************************************************************************)
(* Properties of the snapshot pipeline against the table of employees      *)
(***************************************************************************)
\* C36: every way out of process_snapshot gives its slot back: the free
\* slots and the snapshots in flight always add up to 5, so whenever no
\* snapshot is in flight all 5 slots are free.
C36_EveryExitReleases ==
    /\ sem + Cardinality(InFlight) = SEMAPHORE_SLOTS
    /\ InFlight = {} => sem = SEMAPHORE_SLOTS

\* every snapshot is over, among them one whose file was not there and
\* one that failed on the database
C36_Witness ==
    /\ \A s \in Snapshots : pc[s] = "done"
    /\ \E s \in Snapshots : file[s] = "absent"
    /\ \E s \in Snapshots : fault[s] # "none"
    /\ sem = SEMAPHORE_SLOTS

PendingCaptures(h) == Len(h.captures) - Len(h.outcomes)

\* C38: the listener awaits each capture before it goes on: at most one
\* capture is in progress at any time, a capture starts only when every
\* earlier one has ended, while one is in progress no data is read and no
\* message handled, and the captures start in the order of their alarm
\* messages.
C38_OneCaptureAtATime ==
    [][ /\ PendingCaptures(hist') \in {0, 1}
        /\ Len(hist'.captures) > Len(hist.captures) =>
              /\ Len(hist'.outcomes) = Len(hist.captures)
              /\ SubSeq(hist'.captures, 1, Len(hist.captures)) = hist.captures
        /\ (PendingCaptures(hist) = 1 /\ hist'.outcomes = hist.outcomes) =>
              /\ hist'.received = hist.received
              /\ hist'.handled = hist.handled
              /\ hist'.captures = hist.captures
        /\ hist'.captures =
              SelectSeq(hist'.handled, LAMBDA m : is_alarm(parse_alarm_event(m)))
      ]_vars

\* the capture for the second alarm runs after the one for the first has
\* ended
C38_Witness ==
    /\ listener.pc = "capturing"
    /\ Len(hist.captures) = 2
    /\ Len(hist.outcomes) = 1
    /\ hist.captures = hist.handled

(***************************************************************************)
(* Properties of the index loaded per snapshot                             *)
(***************************************************************************)
\* the rows of the log appended for snapshot s
RowsOf(s, lg) == {i \in 1..Len(lg) : lg[i].trace_id = s}

\* C39: the index is loaded for each snapshot when its recognition starts
\* and holds active employees only: a snapshot whose index is loaded while
\* an employee is deactivated is not matched to that employee, and the
\* rows appended for a snapshot are rows of the employee it was matched
\* to, so none is appended for an employee deactivated before the load.
C39_DeactivatedNeverMatched ==
    [][ \A s \in Snapshots :
          /\ (pc[s] = "admitted" /\ pc'[s] # "admitted") =>
                \A i \in DOMAIN employees :
                    ~employees[i].is_active =>
                        result'[s].person_id # employees[i].id
          /\ pc[s] \in {"gate", "logging", "done"} => result'[s] = result[s]
          /\ \A i \in RowsOf(s, log') \ RowsOf(s, log) :
                /\ pc[s] = "logging"
                /\ log'[i].employee_id = result[s].person_id
      ]_vars

\* employee 1 was deactivated before the index was loaded for a snapshot
\* of their face: the snapshot is over, unmatched, and there is no row for
\* them, while a snapshot of employee 2 has its row
C39_Witness ==
    /\ ~employees[1].is_active
    /\ employees[1].enrolled /\ employees[1].vector # <<>>
    /\ \E s \in Snapshots :
          /\ image[s] = FaceImage(25)
          /\ pc[s] = "done"
          /\ result[s].status = "unknown"
    /\ EventsOf(1, log) = {}
    /\ EventsOf(2, log) # {}

\* C40: a snapshot met by a service that is not ready, or by a table
\* without an active employee whose vector is not empty, is over without
\* recognition: no response, the file still at its original path, no row
\* in the log; a file deleted without recognition is a zero-byte file.
C40_SkippedWithoutRecognition ==
    [][ \A s \in Snapshots :
          /\ (/\ pc[s] \in {"queued", "admitted"}
              /\ pc'[s] # pc[s]
              /\ file[s] = "inbox"
              /\ image[s].kind # "empty"
              /\ \/ pc[s] = "queued" /\ ~is_loaded
                 \/ pc[s] = "admitted" /\
                      \A i \in DOMAIN employees :
                          ~(/\ employees[i].is_active
                            /\ employees[i].enrolled
                            /\ employees[i].vector # <<>>))
                => /\ pc'[s] = "done"
                   /\ result'[s] = NoResponse
                   /\ file'[s] = "inbox"
                   /\ log' = log
          /\ (file'[s] = "deleted" /\ result'[s] = NoResponse) =>
                image[s].kind = "empty"
          /\ (pc'[s] = "done" /\ result'[s] = NoResponse) => RowsOf(s, log') = {}
      ]_vars

\* one snapshot of a face skipped because the service is not ready, in
\* its place and without a row
C40_Witness ==
    /\ ~is_loaded
    /\ \E s \in Snapshots :
          /\ image[s].kind = "face"
          /\ pc[s] = "done"
          /\ result[s] = NoResponse
          /\ file[s] = "inbox"
    /\ log = <<>>

\* one snapshot of a face skipped because the only active employee has no
\* vector
C40_NoVectorWitness ==
    /\ is_loaded
    /\ \E s \in Snapshots :
          /\ image[s].kind = "face"
          /\ pc[s] = "done"
          /\ result[s] = NoResponse
          /\ file[s] = "inbox"
    /\ \E i \in DOMAIN employees : employees[i].is_active /\ employees[i].enrolled

====
